---- MODULE Spec2Model ----
(***************************************************************************)
(* A model of the texpresso (squish) BC1..BC5 block codec.                 *)
(*                                                                         *)
(* The library is a set of pure functions.  Each action of the model is    *)
(* one call of a public (or crate-internal) function: `op` names the       *)
(* function called last, `args` holds the arguments of that call and `ret` *)
(* what the call returned or wrote (with an `aborted` field where the      *)
(* code can panic).  Arrays keep the zero-based indices of the source:     *)
(* a block of n bytes is a function 0..n-1 -> 0..255, a 4x4 tile is a      *)
(* function 0..15 -> (0..3 -> 0..255).                                     *)
(***************************************************************************)
EXTENDS Integers, Sequences, FiniteSets, TLC

VARIABLES op, args, ret

vars == <<op, args, ret>>

----------------------------------------------------------------------------
(* Bounds of the model *)

\* largest width/height given to compressed_size
MaxSize == 33

\* alpha sub-blocks GenBytes(seed, step), seed in 0..MaxAlphaSeed
MaxAlphaSeed == 255

\* colour endpoints Endpoint(seed), seed in 0..MaxEndpointSeed
MaxEndpointSeed == 15

\* colours VecOf(seed), seed in 0..MaxVecSeed
MaxVecSeed == 25

\* largest width/height of the images compressed and decompressed
MaxDim == 6

\* compressed images ImageData(.., seed), seed in 0..MaxDataSeed
MaxDataSeed == 3

\* source images ImagePixels(.., seed), seed in 0..MaxImageSeed
MaxImageSeed == 1

\* the output of compress is up to MaxExtra bytes longer than compressed_size
MaxExtra == 17

\* the blocks the block encoder is run on are BlockOf(0 .. MaxBlockSeed)
MaxBlockSeed == 8

\* the colour fitters are run on FitBlockOf(0 .. MaxFitBlockSeed)
MaxFitBlockSeed == 5

\* and on the outcomes NumericsOf(fit, 0 .. MaxNumericsSeed)
MaxNumericsSeed == 17

\* the alpha encoders are run on ValueTile(channel, 0 .. MaxValueSeed, step)
MaxValueSeed == 255

\* compress_bc3 is run on Bc3Tile(channel, 0 .. MaxBc3Seed): the edge tiles
\* 0 .. MaxEdgeSeed, then value tiles
MaxEdgeSeed == 17
MaxBc3Seed == 785

\* index patterns the alpha writers are run on
MaxIndexSeed == 15

\* blocks the colour point set is built from
MaxSetSeed == 23

\* the endpoints the cluster search settles on are ClusterPairOf(seed, n),
\* seed in 0..MaxClusterSeed
MaxClusterSeed == 5

\* the round trip is run on UniformBlock(0 .. MaxUniformSeed), the fitters'
\* arithmetic settling as NumericsOf(fit, 0 .. MaxReencodeSeed)
MaxUniformSeed == 51
MaxReencodeSeed == 3

\* the row tasks are run on images of 1 .. MaxTileWidth by 1 .. MaxTileHeight
\* pixels: up to two blocks in a row chunk and three row chunks
MaxTileWidth == 5
MaxTileHeight == 9

----------------------------------------------------------------------------
(* Fixed-width integer helpers *)

Pow2(n) == 2 ^ n

RECURSIVE BitAnd(_, _)
BitAnd(a, b) ==
    IF a = 0 \/ b = 0 THEN 0
    ELSE (IF a % 2 = 1 /\ b % 2 = 1 THEN 1 ELSE 0) + 2 * BitAnd(a \div 2, b \div 2)

RECURSIVE BitOr(_, _)
BitOr(a, b) ==
    IF a = 0 THEN b
    ELSE IF b = 0 THEN a
    ELSE (IF a % 2 = 1 \/ b % 2 = 1 THEN 1 ELSE 0) + 2 * BitOr(a \div 2, b \div 2)

RECURSIVE BitXor(_, _)
BitXor(a, b) ==
    IF a = 0 THEN b
    ELSE IF b = 0 THEN a
    ELSE (IF a % 2 # b % 2 THEN 1 ELSE 0) + 2 * BitXor(a \div 2, b \div 2)

\* u8 << n : bits shifted out of the byte are dropped (n < 8, so no panic)
Shl8(a, n) == (a * Pow2(n)) % 256

Shr(a, n) == a \div Pow2(n)

\* mask & (1 << i) != 0
BitSet(mask, i) == (mask \div Pow2(i)) % 2 = 1

Min(a, b) == IF a < b THEN a ELSE b

Max(a, b) == IF a > b THEN a ELSE b

\* the byte steps of the generated alpha sub-blocks
AlphaSteps == {0, 37, 219}

----------------------------------------------------------------------------
(* Formats and sizes: squish/src/lib.rs *)

Format == {"Bc1", "Bc2", "Bc3", "Bc4", "Bc5"}

\* mutant of num_blocks: the partial last block is not counted
num_blocks_truncating(size) == size \div 4

num_blocks(size) == (size + 3) \div 4

block_size(format) ==
    CASE format = "Bc1" -> 8
      [] format = "Bc2" -> 16
      [] format = "Bc3" -> 16
      [] format = "Bc4" -> 8
      [] format = "Bc5" -> 16

compressed_size(format, width, height) ==
    (num_blocks(width) * num_blocks(height)) * block_size(format)

----------------------------------------------------------------------------
(* Arrays *)

\* an RGBA texel, [u8; 4]
Texel(r, g, b, a) == [c \in 0..3 |-> CASE c = 0 -> r [] c = 1 -> g [] c = 2 -> b [] c = 3 -> a]

\* bytes[from..from + len) as a slice indexed from 0
Slice(bytes, from, len) == [i \in 0..(len - 1) |-> bytes[from + i]]

\* the concatenation of two byte arrays
Concat(x, n, y, m) == [i \in 0..(n + m - 1) |-> IF i < n THEN x[i] ELSE y[i - n]]

\* LittleEndian::read_u16 of a two-byte slice (0-based) or byte pair (1-based)
read_u16(bytes) ==
    IF 0 \in DOMAIN bytes THEN bytes[0] + 256 * bytes[1] ELSE bytes[1] + 256 * bytes[2]

----------------------------------------------------------------------------
(* Colour sub-block decode: squish/src/colourblock.rs *)

unpack_565(packed) ==
    LET value == BitOr(packed[0], packed[1] * 256)
        r == BitAnd(Shr(value, 11), 31)
        g == BitAnd(Shr(value, 5), 63)
        b == BitAnd(value, 31)
    IN  Texel(BitOr(Shl8(r, 3), Shr(r, 2)),
              BitOr(Shl8(g, 2), Shr(g, 4)),
              BitOr(Shl8(b, 3), Shr(b, 2)),
              255)

\* mutant of colourblock_codes: the three-colour palette is taken on a <= b
\* whatever the format
colourblock_codes_any_format(bytes, is_bc1) ==
    LET a == read_u16(Slice(bytes, 0, 2))
        b == read_u16(Slice(bytes, 2, 2))
        ca == unpack_565(Slice(bytes, 0, 2))
        cb == unpack_565(Slice(bytes, 2, 2))
        three == a <= b
    IN  [k \in 0..15 |->
            LET i == k % 4
                c == ca[i]
                d == cb[i]
            IN  CASE k < 4 -> c
                  [] k >= 4 /\ k < 8 -> d
                  [] k = 8 + 3 -> 255
                  [] k = 12 + 3 -> IF three THEN 0 ELSE 255
                  [] k >= 8 /\ k < 11 -> IF three THEN (c + d) \div 2 ELSE (2 * c + d) \div 3
                  [] k >= 12 /\ k < 15 -> IF three THEN 0 ELSE (c + 2 * d) \div 3]

\* the 16-entry codes array of colourblock::decompress: four RGBA palette entries
colourblock_codes(bytes, is_bc1) ==
    LET a == read_u16(Slice(bytes, 0, 2))
        b == read_u16(Slice(bytes, 2, 2))
        ca == unpack_565(Slice(bytes, 0, 2))
        cb == unpack_565(Slice(bytes, 2, 2))
        three == is_bc1 /\ a <= b
    IN  [k \in 0..15 |->
            LET i == k % 4
                c == ca[i]
                d == cb[i]
            IN  CASE k < 4 -> c
                  [] k >= 4 /\ k < 8 -> d
                  [] k = 8 + 3 -> 255
                  [] k = 12 + 3 -> IF three THEN 0 ELSE 255
                  [] k >= 8 /\ k < 11 -> IF three THEN (c + d) \div 2 ELSE (2 * c + d) \div 3
                  [] k >= 12 /\ k < 15 -> IF three THEN 0 ELSE (c + 2 * d) \div 3]

\* the 2-bit LUT indices unpacked from bytes 4..8
colourblock_indices(bytes) ==
    [k \in 0..15 |-> BitAnd(Shr(bytes[4 + (k \div 4)], 2 * (k % 4)), 3)]

colourblock_decompress(bytes, is_bc1) ==
    LET codes == colourblock_codes(bytes, is_bc1)
        indices == colourblock_indices(bytes)
    IN  [i \in 0..15 |-> [c \in 0..3 |-> codes[4 * indices[i] + c]]]

----------------------------------------------------------------------------
(* Colour sub-block encode: squish/src/math.rs, squish/src/colourblock.rs *)

(* An f32 is modelled as a rational <<n, d>> with d > 0, and <<0, 0>> is NaN. *)
(* The values that reach pack_565 are multiples of 1/256 (exact in f32, and   *)
(* so are their products with 31 and 63) or grid values k/31 and k/63, whose  *)
(* products with 31 and 63 are never within 1/62 of a rounding boundary: on   *)
(* all of them roundf of the f32 product is the rounding of the exact one.    *)

IsNaN(a) == a[2] = 0

\* scalar * f32
Scale(k, a) == <<k * a[1], a[2]>>

\* libm::roundf(a).max(0.0).min(limit as f32) as i32: round half away from
\* zero; f32::max and f32::min return the other operand for a NaN
f32_to_i32_clamped(a, limit) ==
    IF IsNaN(a) THEN 0
    ELSE IF a[1] <= 0 THEN 0
    ELSE Min((2 * a[1] + a[2]) \div (2 * a[2]), limit)

pack_565(colour) ==
    LET r == f32_to_i32_clamped(Scale(31, colour[1]), 31)
        g == f32_to_i32_clamped(Scale(63, colour[2]), 63)
        b == f32_to_i32_clamped(Scale(31, colour[3]), 31)
    IN  read_u16(<<BitOr(Shl8(g, 5), b), BitOr(Shl8(r, 3), Shr(g, 3))>>)

write_block(a, b, indices) ==
    [k \in 0..7 |->
        CASE k = 0 -> a % 256
          [] k = 1 -> a \div 256
          [] k = 2 -> b % 256
          [] k = 3 -> b \div 256
          [] OTHER ->
                LET i == k - 4
                IN  BitOr(BitOr(Shl8(BitAnd(indices[4 * i + 3], 3), 6),
                                Shl8(BitAnd(indices[4 * i + 2], 3), 4)),
                          BitOr(Shl8(BitAnd(indices[4 * i + 1], 3), 2),
                                BitAnd(indices[4 * i], 3)))]

\* mutant of write3: the endpoints are swapped, the indices kept
write3_keep_indices(start, end, indices) ==
    LET a == pack_565(start)
        b == pack_565(end)
    IN  IF a > b THEN write_block(b, a, indices) ELSE write_block(a, b, indices)

write3(start, end, indices) ==
    LET a == pack_565(start)
        b == pack_565(end)
    IN  IF a > b
        THEN write_block(b, a, [i \in 0..15 |->
                                    CASE indices[i] = 0 -> 1
                                      [] indices[i] = 1 -> 0
                                      [] OTHER -> indices[i]])
        ELSE write_block(a, b, indices)

\* mutant of write4: the endpoints are stored in the order the fit gave them
write4_unordered(start, end, indices) ==
    write_block(pack_565(start), pack_565(end), indices)

\* mutant of write4: equal packed endpoints keep the fitted indices
write4_keep_indices(start, end, indices) ==
    LET a == pack_565(start)
        b == pack_565(end)
    IN  IF a < b
        THEN write_block(b, a, [i \in 0..15 |-> BitAnd(BitXor(indices[i], 1), 3)])
        ELSE write_block(a, b, indices)

write4(start, end, indices) ==
    LET a == pack_565(start)
        b == pack_565(end)
    IN  IF a < b
        THEN write_block(b, a, [i \in 0..15 |-> BitAnd(BitXor(indices[i], 1), 3)])
        ELSE IF a > b
        THEN write_block(a, b, indices)
        ELSE write_block(a, b, [i \in 0..15 |-> 0])

----------------------------------------------------------------------------
(* Alpha sub-block decode: squish/src/alpha.rs *)

decompress_bc2(rgba, bytes) ==
    [t \in 0..15 |->
        LET i == t \div 2
            quant == bytes[i]
            lo == BitAnd(quant, 15)
            hi == BitAnd(quant, 240)
        IN  IF t = 2 * i
            THEN [rgba[t] EXCEPT ![3] = BitOr(lo, Shl8(lo, 4))]
            ELSE [rgba[t] EXCEPT ![3] = BitOr(hi, Shl8(hi, 4))]]

\* the codebook decompress_bc3 rebuilds from the two endpoint bytes
bc3_codes(bytes) ==
    LET alpha0 == bytes[0]
        alpha1 == bytes[1]
    IN  [k \in 0..7 |->
            CASE k = 0 -> bytes[0]
              [] k = 1 -> bytes[1]
              [] OTHER ->
                    IF alpha0 <= alpha1
                    THEN (CASE k = 6 -> 0
                            [] k = 7 -> 255
                            [] OTHER -> (((5 - (k - 1)) * alpha0 + (k - 1) * alpha1) \div 5) % 256)
                    ELSE (((7 - (k - 1)) * alpha0 + (k - 1) * alpha1) \div 7) % 256]

\* the sixteen 3-bit indices, 8 per 3 bytes
bc3_indices(bytes) ==
    [k \in 0..15 |->
        LET i == k \div 8
            j == k % 8
            value == BitOr(BitOr(bytes[2 + 3 * i], bytes[2 + 3 * i + 1] * 256),
                           bytes[2 + 3 * i + 2] * 65536)
        IN  BitAnd(Shr(value, 3 * j), 7)]

decompress_bc3(rgba, channel, bytes) ==
    LET codes == bc3_codes(bytes)
        indices == bc3_indices(bytes)
    IN  [t \in 0..15 |-> [rgba[t] EXCEPT ![channel] = codes[indices[t]]]]

----------------------------------------------------------------------------
(* Block decode: squish/src/lib.rs *)

\* `for ref mut pixel in rgba { pixel[1] = pixel[0]; pixel[2] = pixel[0]; }`:
\* the loop takes the array by value ([[u8; 4]; 16] is Copy), `ref mut pixel`
\* borrows the item the iterator yields, so the two stores land in the
\* iterator's copy and rgba keeps what decompress_bc3 left in it
bc4_splat(rgba) ==
    rgba

\* mutant of decompress_block: Bc5 decodes both sub-blocks into channel 0
decompress_block_one_channel(format, block) ==
    LET colour_offset == IF format = "Bc1" THEN 0 ELSE 8
        rgba0 == IF format \in {"Bc1", "Bc2", "Bc3"}
                 THEN colourblock_decompress(Slice(block, colour_offset, 8), format = "Bc1")
                 ELSE [t \in 0..15 |-> Texel(0, 0, 0, 255)]
    IN  CASE format = "Bc1" -> rgba0
          [] format = "Bc2" -> decompress_bc2(rgba0, Slice(block, 0, 8))
          [] format = "Bc3" -> decompress_bc3(rgba0, 3, Slice(block, 0, 8))
          [] format = "Bc4" -> bc4_splat(decompress_bc3(rgba0, 0, Slice(block, 0, 8)))
          [] format = "Bc5" -> decompress_bc3(decompress_bc3(rgba0, 0, Slice(block, 0, 8)),
                                              0, Slice(block, 8, 8))

decompress_block(format, block) ==
    LET colour_offset == IF format = "Bc1" THEN 0 ELSE 8
        rgba0 == IF format \in {"Bc1", "Bc2", "Bc3"}
                 THEN colourblock_decompress(Slice(block, colour_offset, 8), format = "Bc1")
                 ELSE [t \in 0..15 |-> Texel(0, 0, 0, 255)]
    IN  CASE format = "Bc1" -> rgba0
          [] format = "Bc2" -> decompress_bc2(rgba0, Slice(block, 0, 8))
          [] format = "Bc3" -> decompress_bc3(rgba0, 3, Slice(block, 0, 8))
          [] format = "Bc4" -> bc4_splat(decompress_bc3(rgba0, 0, Slice(block, 0, 8)))
          [] format = "Bc5" -> decompress_bc3(decompress_bc3(rgba0, 0, Slice(block, 0, 8)),
                                              1, Slice(block, 8, 8))

----------------------------------------------------------------------------
(* Where the block decoder can abort: squish/src/lib.rs, colourblock.rs, alpha.rs *)

\* mutant of codes_slice_in_range: the codes array holds three palette entries
codes_slice_in_range_short(offset, length) == offset + length <= 12

\* `&codes[offset..(offset + length)]` is within `codes: [u8; 16]`
codes_slice_in_range(offset, length) == offset + length <= 16

\* colourblock::decompress panics: the length assertion, the u32 sums of the
\* interpolation, the slice of codes taken for each texel
colourblock_decompress_panics(bytes, is_bc1) ==
    \/ Cardinality(DOMAIN bytes) # 8
    \/ \E i \in 0..3 :
          LET c == unpack_565(Slice(bytes, 0, 2))[i]
              d == unpack_565(Slice(bytes, 2, 2))[i]
          IN  2 * c + d >= 2 ^ 30 \/ c + 2 * d >= 2 ^ 30
    \/ \E i \in 0..15 : ~codes_slice_in_range(4 * colourblock_indices(bytes)[i], 4)

\* alpha::decompress_bc2 panics: the length assertion (u8 shifts drop bits)
decompress_bc2_panics(bytes) == Cardinality(DOMAIN bytes) # 8

\* alpha::decompress_bc3 panics: the length assertion, the i32 interpolation,
\* `codes[index as usize]` on `codes: [u8; 8]`
decompress_bc3_panics(bytes) ==
    \/ Cardinality(DOMAIN bytes) # 8
    \/ \E i \in 1..6 : (7 - i) * bytes[0] + i * bytes[1] >= 2 ^ 30
    \/ \E k \in 0..15 : bc3_indices(bytes)[k] >= 8

\* Format::decompress_block panics: slicing the block, or a callee does
decompress_block_panics(format, block) ==
    LET len == Cardinality(DOMAIN block)
        colour_offset == IF format = "Bc1" THEN 0 ELSE 8
    IN  \/ (format \in {"Bc1", "Bc2", "Bc3"} /\ colour_offset + 8 > len)
        \/ (format # "Bc1" /\ 8 > len)
        \/ (format = "Bc5" /\ 16 > len)
        \/ (format \in {"Bc1", "Bc2", "Bc3"}
              /\ colourblock_decompress_panics(Slice(block, colour_offset, 8), format = "Bc1"))
        \/ (format = "Bc2" /\ decompress_bc2_panics(Slice(block, 0, 8)))
        \/ (format \in {"Bc3", "Bc4", "Bc5"} /\ decompress_bc3_panics(Slice(block, 0, 8)))
        \/ (format = "Bc5" /\ decompress_bc3_panics(Slice(block, 8, 8)))

----------------------------------------------------------------------------
(* Image decode: squish/src/lib.rs, Format::decompress *)

\* slice.chunks_mut(size): the number of chunks of a slice of len bytes
chunks_count(len, size) == (len + size - 1) \div size

\* the length of chunk k: all chunks have `size` bytes but possibly the last
chunk_len(len, size, k) == Min(size, len - k * size)

\* the stores `output_row[4 * (sx + sy * width) + i] = rgba[px + py * 4][i]` of
\* the sequential loop nest, in program order: `at` is the index into chunk y
\* of the output, `rank` the position of the store in the order of the loops
decompress_stores(width, height, out_len) ==
    LET blocks_wide == num_blocks(width)
    IN  { [rank |-> (((y * blocks_wide + x) * 4 + py) * 4 + px) * 4 + i,
           y |-> y, x |-> x, py |-> py, px |-> px, i |-> i,
           at |-> 4 * ((4 * x + px) + py * width) + i] :
            <<y, x, py, px, i>> \in
                { t \in (0..(chunks_count(out_len, width * 4 * 4) - 1)) \X (0..(blocks_wide - 1))
                            \X (0..3) \X (0..3) \X (0..3) :
                    LET sx == 4 * t[2] + t[4]
                        sy == t[3]
                    IN  sx < width /\ sy < height } }

\* `self.decompress_block(&data[bidx..bidx + block_size])` for block (x, y)
decompress_block_at(format, data, width, x, y) ==
    LET bidx == (x + y * num_blocks(width)) * block_size(format)
    IN  decompress_block(format, Slice(data, bidx, block_size(format)))

\* Format::decompress(data, width, height, output): an out-of-range index
\* panics; the stores made before it stay in the caller's buffer
decompress(format, data, width, height, output) ==
    LET out_len == 4 * width * height
        row_size == width * 4 * 4
        rows == chunks_count(out_len, row_size)
        stores == decompress_stores(width, height, out_len)
        bad == {s \in stores : s.at >= chunk_len(out_len, row_size, s.y)}
        first_bad == IF bad = {} THEN -1
                     ELSE CHOOSE r \in {s.rank : s \in bad} : \A s \in bad : r <= s.rank
        rgba == [b \in 0..(rows * num_blocks(width) - 1) |->
                    decompress_block_at(format, data, width,
                                        b % num_blocks(width), b \div num_blocks(width))]
    IN  [aborted |-> bad # {},
         output |->
            [g \in 0..(out_len - 1) |->
                LET y == g \div row_size
                    at == g % row_size
                    i == at % 4
                    py == (at \div 4) \div width
                    sx == (at \div 4) % width
                    x == sx \div 4
                    px == sx % 4
                    rank == (((y * num_blocks(width) + x) * 4 + py) * 4 + px) * 4 + i
                IN  IF /\ \E s \in stores : s.y = y /\ s.at = at
                       /\ (first_bad = -1 \/ rank < first_bad)
                    THEN rgba[y * num_blocks(width) + x][px + py * 4][i]
                    ELSE output[g]]]

----------------------------------------------------------------------------
(* Image encode: squish/src/lib.rs, Format::compress *)

\* the bytes of its output slice that compress_block_masked stores to, and
\* whether slicing `output[..8]`, `output[8..16]` or `output[colour_offset..
\* colour_offset + 8]` panics on a slice of len bytes; the alpha sub-block is
\* stored before the colour sub-block is sliced
block_stores(format, len) ==
    LET alpha == CASE format = "Bc1" -> [written |-> {}, panicked |-> FALSE]
                   [] format \in {"Bc2", "Bc3", "Bc4"} ->
                        IF len >= 8 THEN [written |-> 0..7, panicked |-> FALSE]
                        ELSE [written |-> {}, panicked |-> TRUE]
                   [] format = "Bc5" ->
                        IF len >= 16 THEN [written |-> 0..15, panicked |-> FALSE]
                        ELSE IF len >= 8 THEN [written |-> 0..7, panicked |-> TRUE]
                        ELSE [written |-> {}, panicked |-> TRUE]
        colour_offset == IF format = "Bc1" THEN 0 ELSE 8
    IN  IF alpha.panicked \/ format \in {"Bc4", "Bc5"} THEN alpha
        ELSE IF len >= colour_offset + 8
        THEN [written |-> alpha.written \cup (colour_offset..(colour_offset + 7)),
              panicked |-> FALSE]
        ELSE [written |-> alpha.written, panicked |-> TRUE]

\* the mask compress builds for block (x, y): bit 4 * py + px is set when
\* pixel (4x + px, 4y + py) is within bounds
tile_mask(x, y, width, height) ==
    LET bits == [index \in 0..15 |->
                    IF 4 * x + (index % 4) < width /\ 4 * y + (index \div 4) < height
                    THEN Pow2(index) ELSE 0]
    IN  bits[0] + bits[1] + bits[2] + bits[3] + bits[4] + bits[5] + bits[6] + bits[7]
        + bits[8] + bits[9] + bits[10] + bits[11] + bits[12] + bits[13] + bits[14] + bits[15]

\* source_rgba when block (x, y) is compressed: it is zeroed once per block
\* row and only the pixels within bounds are copied over it, so the other
\* texels keep what the blocks to the left stored
RECURSIVE source_rgba(_, _, _, _, _)
source_rgba(rgba, x, y, width, height) ==
    [index \in 0..15 |->
        LET sx == 4 * x + (index % 4)
            sy == 4 * y + (index \div 4)
            src_index == 4 * (width * sy + sx)
        IN  IF sx < width /\ sy < height
            THEN Slice(rgba, src_index, 4)
            ELSE IF x = 0 THEN Texel(0, 0, 0, 0)
            ELSE source_rgba(rgba, x - 1, y, width, height)[index]]

\* mutant of block_offset: the block rows are laid out blocks_high apart
block_offset_by_height(format, width, height, x, y) ==
    y * (num_blocks(height) * block_size(format)) + x * block_size(format)

\* where the output slice of block (x, y) starts: row chunk y of
\* blocks_wide * block_size bytes, block chunk x of block_size bytes
block_offset(format, width, height, x, y) ==
    y * (num_blocks(width) * block_size(format)) + x * block_size(format)

\* the call of compress_block_masked for block chunk x of row chunk y
compress_call(format, rgba, width, height, out_len, x, y) ==
    LET row_size == num_blocks(width) * block_size(format)
        row_len == chunk_len(out_len, row_size, y)
        len == chunk_len(row_len, block_size(format), x)
        offset == block_offset(format, width, height, x, y)
        stores == block_stores(format, len)
    IN  [x |-> x, y |-> y,
         rgba |-> source_rgba(rgba, x, y, width, height),
         mask |-> tile_mask(x, y, width, height),
         offset |-> offset, len |-> len,
         written |-> {offset + k : k \in stores.written},
         panicked |-> stores.panicked]

\* Format::compress(rgba, width, height, params, output), rows and blocks
\* taken in order: the assertion, then one compress_block_masked per block
\* chunk of the output, up to the first one that panics
compress(format, rgba, width, height, out_len) ==
    IF ~(out_len >= compressed_size(format, width, height))
    THEN [aborted |-> TRUE, asserted |-> TRUE, calls |-> <<>>]
    ELSE
        LET row_size == num_blocks(width) * block_size(format)
            rows == chunks_count(out_len, row_size)
            coords == { <<y, x>> \in (0..(rows - 1)) \X (0..(num_blocks(width) - 1)) :
                            x < chunks_count(chunk_len(out_len, row_size, y), block_size(format)) }
            all == { compress_call(format, rgba, width, height, out_len, c[2], c[1]) : c \in coords }
            before(c, d) == c.y < d.y \/ (c.y = d.y /\ c.x < d.x)
            made == { c \in all : \A d \in all : (d.panicked /\ d # c) => before(c, d) }
            nth[k \in 1..Cardinality(made)] ==
                CHOOSE c \in made : Cardinality({d \in made : before(d, c)}) = k - 1
        IN  [aborted |-> \E c \in all : c.panicked,
             asserted |-> FALSE,
             calls |-> [k \in 1..Cardinality(made) |-> nth[k]]]

----------------------------------------------------------------------------
(* Alpha encoding (alpha.rs) *)

\* mutant of compress_bc2: the first texel of a pair goes to the high nibble
compress_bc2_high_first(rgba, mask) ==
    [i \in 0..7 |->
        LET alpha1 == <<15 * rgba[2 * i][3], 255>>
            alpha2 == <<15 * rgba[2 * i + 1][3], 255>>
            quant1 == IF ~BitSet(mask, 2 * i) THEN 0 ELSE f32_to_i32_clamped(alpha1, 15)
            quant2 == IF ~BitSet(mask, 2 * i + 1) THEN 0 ELSE f32_to_i32_clamped(alpha2, 15)
        IN  BitOr(quant2, Shl8(quant1, 4))]

\* alpha::compress_bc2(rgba, mask, block): the 8 bytes copied into block.
\* alpha * (15.0 / 255.0) is within 2^-20 of alpha / 17, which is never
\* within 1/34 of a rounding boundary, so roundf sees the exact quotient
compress_bc2(rgba, mask) ==
    [i \in 0..7 |->
        LET alpha1 == <<15 * rgba[2 * i][3], 255>>
            alpha2 == <<15 * rgba[2 * i + 1][3], 255>>
            quant1 == IF ~BitSet(mask, 2 * i) THEN 0 ELSE f32_to_i32_clamped(alpha1, 15)
            quant2 == IF ~BitSet(mask, 2 * i + 1) THEN 0 ELSE f32_to_i32_clamped(alpha2, 15)
        IN  BitOr(quant1, Shl8(quant2, 4))]

\* mutant of fix_range: min is lowered first, max grown if that is not enough
fix_range_min_first(min, max, steps) ==
    LET min1 == IF max - min < steps THEN Max(max - steps, 0) ELSE min
        max1 == IF max - min1 < steps THEN Min(min1 + steps, 255) ELSE max
    IN  <<min1, max1>>

\* alpha::fix_range: one of its two u8 subtractions *max - *min has max < min
\* (a panic in a build with overflow checks, a wrapped difference without)
fix_range_underflows(min, max, steps) ==
    \/ max < min
    \/ (IF max - min < steps THEN Min(min + steps, 255) ELSE max) < min

\* alpha::fix_range(min, max, steps): the pair <<min, max>> it leaves; its
\* callers pass min <= max, so the u8 subtractions do not underflow
fix_range(min, max, steps) ==
    LET max1 == IF max - min < steps THEN Min(min + steps, 255) ELSE max
        min1 == IF max1 - min < steps THEN Max(max1 - steps, 0) ELSE min
    IN  <<min1, max1>>

\* the squared distance fit_codes takes from value to codes[j]; a codebook
\* is the tuple of its 8 codes, code j at position j + 1
code_dist(value, codes, j) == (value - codes[j + 1]) * (value - codes[j + 1])

\* the index fit_codes keeps for value: the first code at the least distance
\* (`dist < least` is strict, and least starts at u32::MAX)
nearest_code(value, codes) ==
    LET dist == [j \in 0..7 |-> code_dist(value, codes, j)]
    IN  CHOOSE j \in 0..7 :
            \A k \in 0..7 : dist[j] < dist[k] \/ (dist[j] = dist[k] /\ j <= k)

\* alpha::fit_codes(rgba, channel, mask, codes, indices): the indices it
\* stores and the error it returns; masked-out texels get the first code and
\* add nothing to the error
fit_codes(rgba, channel, mask, codes) ==
    LET indices == [i \in 0..15 |->
                        IF ~BitSet(mask, i) THEN 0 ELSE nearest_code(rgba[i][channel], codes)]
        least == [i \in 0..15 |->
                        IF ~BitSet(mask, i) THEN 0
                        ELSE code_dist(rgba[i][channel], codes, indices[i])]
        sum[n \in 0..16] == IF n = 0 THEN 0 ELSE sum[n - 1] + least[n - 1]
    IN  [indices |-> indices, err |-> sum[16]]

\* alpha::write_alpha_block(alpha0, alpha1, indices, block): two endpoint
\* bytes, then two groups of 8 three-bit indices in 3 little-endian bytes each
write_alpha_block(alpha0, alpha1, indices) ==
    [k \in 0..7 |->
        IF k = 0 THEN alpha0
        ELSE IF k = 1 THEN alpha1
        ELSE LET i == (k - 2) \div 3
                 j == (k - 2) % 3
                 shifted[t \in 0..8] ==
                     IF t = 0 THEN 0 ELSE shifted[t - 1] + indices[8 * i + (t - 1)] * Pow2(3 * (t - 1))
                 value == shifted[8]
             IN  Shr(value, 8 * j) % 256]

\* alpha::write_alpha_block5(alpha0, alpha1, indices, block)
write_alpha_block5(alpha0, alpha1, indices) ==
    IF alpha0 > alpha1
    THEN LET swapped == [i \in 0..15 |->
                            CASE indices[i] = 0 -> 1
                              [] indices[i] = 1 -> 0
                              [] indices[i] \in 2..5 -> 7 - indices[i]
                              [] OTHER -> indices[i]]
         IN  write_alpha_block(alpha1, alpha0, swapped)
    ELSE write_alpha_block(alpha0, alpha1, indices)

\* mutant of write_alpha_block7: the endpoints are swapped, the indices kept
write_alpha_block7_keep_indices(alpha0, alpha1, indices) ==
    IF alpha0 < alpha1
    THEN write_alpha_block(alpha1, alpha0, indices)
    ELSE write_alpha_block(alpha0, alpha1, indices)

\* alpha::write_alpha_block7(alpha0, alpha1, indices, block)
write_alpha_block7(alpha0, alpha1, indices) ==
    IF alpha0 < alpha1
    THEN LET swapped == [i \in 0..15 |->
                            CASE indices[i] = 0 -> 1
                              [] indices[i] = 1 -> 0
                              [] OTHER -> 9 - indices[i]]
         IN  write_alpha_block(alpha1, alpha0, swapped)
    ELSE write_alpha_block(alpha0, alpha1, indices)

\* mutant of bc3_ranges: the masked-out texels are not skipped
bc3_ranges_unmasked(rgba, channel, mask) ==
    LET values == {rgba[i][channel] : i \in 0..15}
        least(S) == CHOOSE v \in S : \A u \in S : v <= u
        most(S) == CHOOSE v \in S : \A u \in S : v >= u
    IN  [min5 |-> least((values \ {0}) \cup {255}), max5 |-> most((values \ {255}) \cup {0}),
         min7 |-> least(values \cup {255}), max7 |-> most(values \cup {0})]

\* the first loop of alpha::compress_bc3: the 5-alpha and 7-alpha ranges of
\* the valid texels, starting from min = u8::MAX and max = 0
bc3_ranges(rgba, channel, mask) ==
    LET values == {rgba[i][channel] : i \in {t \in 0..15 : BitSet(mask, t)}}
        least(S) == CHOOSE v \in S : \A u \in S : v <= u
        most(S) == CHOOSE v \in S : \A u \in S : v >= u
    IN  [min5 |-> least((values \ {0}) \cup {255}), max5 |-> most((values \ {255}) \cup {0}),
         min7 |-> least(values \cup {255}), max7 |-> most(values \cup {0})]

\* alpha::compress_bc3, up to the two fits: the ranges handed to fix_range
\* (valid5, valid7), the span-fixed ranges, the two codebooks and fit_codes
\* on each.  The 7-alpha codebook gets min5 and max5
\* as its first two codes, as in the source, and min7 and max7 in the
\* interpolated ones
bc3_candidates(rgba, channel, mask) ==
    LET ranges == bc3_ranges(rgba, channel, mask)
        min5a == IF ranges.min5 > ranges.max5 THEN ranges.max5 ELSE ranges.min5
        min7a == IF ranges.min7 > ranges.max7 THEN ranges.max7 ELSE ranges.min7
        range5 == fix_range(min5a, ranges.max5, 5)
        range7 == fix_range(min7a, ranges.max7, 7)
        min5 == range5[1]
        max5 == range5[2]
        min7 == range7[1]
        max7 == range7[2]
        codes5 == << min5, max5,
                     (4 * min5 + 1 * max5) \div 5, (3 * min5 + 2 * max5) \div 5,
                     (2 * min5 + 3 * max5) \div 5, (1 * min5 + 4 * max5) \div 5,
                     0, 255 >>
        codes7 == << min5, max5,
                     (6 * min7 + 1 * max7) \div 7, (5 * min7 + 2 * max7) \div 7,
                     (4 * min7 + 3 * max7) \div 7, (3 * min7 + 4 * max7) \div 7,
                     (2 * min7 + 5 * max7) \div 7, (1 * min7 + 6 * max7) \div 7 >>
    IN  [min5 |-> min5, max5 |-> max5, min7 |-> min7, max7 |-> max7,
         valid5 |-> <<min5a, ranges.max5>>, valid7 |-> <<min7a, ranges.max7>>,
         codes5 |-> codes5, codes7 |-> codes7,
         fit5 |-> fit_codes(rgba, channel, mask, codes5),
         fit7 |-> fit_codes(rgba, channel, mask, codes7)]

\* the end of alpha::compress_bc3: the block with the least error is saved
bc3_least_error(c) ==
    IF c.fit5.err <= c.fit7.err
    THEN write_alpha_block5(c.min5, c.max5, c.fit5.indices)
    ELSE write_alpha_block7(c.min7, c.max7, c.fit7.indices)

\* alpha::compress_bc3(rgba, channel, mask, block): the 8 bytes stored
compress_bc3(rgba, channel, mask) == bc3_least_error(bc3_candidates(rgba, channel, mask))

----------------------------------------------------------------------------
(* The colour point set (colourset.rs) *)

\* f32::sqrt of a weight of n / 256, kept as the value it is the root of
sqrt(n) == [sqrt_of |-> <<n, 256>>]

\* the set after the loop of ColourSet::new has handled texels 0 .. n - 1;
\* points are <<r / 255, g / 255, b / 255>>, weights count 256ths
RECURSIVE colourset_scan(_, _, _, _, _)
colourset_scan(rgba, mask, format, alpha_weighted, n) ==
    IF n = 0
    THEN [count |-> 0,
          points |-> [k \in 0..15 |-> << <<0, 255>>, <<0, 255>>, <<0, 255>> >>],
          weights |-> [k \in 0..15 |-> 0],
          remap |-> [k \in 0..15 |-> 0],
          transparent |-> FALSE]
    ELSE
        LET set == colourset_scan(rgba, mask, format, alpha_weighted, n - 1)
            i == n - 1
            w == IF alpha_weighted THEN rgba[i][3] + 1 ELSE 256
            duplicates == {j \in 0..(i - 1) :
                              /\ BitSet(mask, j)
                              /\ rgba[i][0] = rgba[j][0]
                              /\ rgba[i][1] = rgba[j][1]
                              /\ rgba[i][2] = rgba[j][2]
                              /\ (format # "Bc1" \/ rgba[j][3] >= 128)}
        IN  IF ~BitSet(mask, i)
            THEN [set EXCEPT !.remap[i] = -1]
            ELSE IF format = "Bc1" /\ rgba[i][3] < 128
            THEN [set EXCEPT !.remap[i] = -1, !.transparent = TRUE]
            ELSE IF duplicates = {}
            THEN [set EXCEPT !.points[set.count] =
                                 << <<rgba[i][0], 255>>, <<rgba[i][1], 255>>, <<rgba[i][2], 255>> >>,
                             !.weights[set.count] = w,
                             !.remap[i] = set.count,
                             !.count = set.count + 1]
            ELSE LET j == CHOOSE d \in duplicates : \A e \in duplicates : d <= e
                     index == set.remap[j]
                 IN  [set EXCEPT !.weights[index] = @ + w, !.remap[i] = index]

\* mutant of ColourSet_new: the weights are taken from alpha whatever the flag
ColourSet_new_alpha_weights(rgba, mask, format, alpha_weighted) ==
    LET set == colourset_scan(rgba, mask, format, TRUE, 16)
    IN  [count |-> set.count,
         points |-> set.points,
         weights |-> [k \in 0..15 |-> sqrt(set.weights[k])],
         remap |-> set.remap,
         transparent |-> set.transparent]

\* ColourSet::new(rgba, mask, format, alpha_weighted)
ColourSet_new(rgba, mask, format, alpha_weighted) ==
    LET set == colourset_scan(rgba, mask, format, alpha_weighted, 16)
    IN  [count |-> set.count,
         points |-> set.points,
         weights |-> [k \in 0..15 |-> sqrt(set.weights[k])],
         remap |-> set.remap,
         transparent |-> set.transparent]

\* mutant of remap_indices: a texel without a point keeps the first index
remap_indices_first(set, source) ==
    [i \in 0..15 |-> IF set.remap[i] = -1 THEN 0 ELSE source[set.remap[i]]]

\* ColourSet::remap_indices(source, target): the target it fills
remap_indices(set, source) ==
    [i \in 0..15 |-> IF set.remap[i] = -1 THEN 3 ELSE source[set.remap[i]]]

----------------------------------------------------------------------------
(* Block encoding (lib.rs) *)

Algorithm == {"RangeFit", "ClusterFit", "IterativeClusterFit"}

COLOUR_WEIGHTS_UNIFORM == << <<1, 1>>, <<1, 1>>, <<1, 1>> >>

COLOUR_WEIGHTS_PERCEPTUAL == << <<2126, 10000>>, <<7152, 10000>>, <<722, 10000>> >>

\* Params::default()
Params_default ==
    [algorithm |-> "ClusterFit", weights |-> COLOUR_WEIGHTS_PERCEPTUAL,
     weigh_colour_by_alpha |-> FALSE]

\* mutant of colour_fit: a point set of one colour goes by the algorithm
colour_fit_by_algorithm(format, colours, params) ==
    IF params.algorithm = "RangeFit" \/ colours.count = 0
    THEN [fit |-> "RangeFit", colours |-> colours, format |-> format,
          weights |-> params.weights]
    ELSE [fit |-> "ClusterFit", colours |-> colours, format |-> format,
          weights |-> params.weights,
          iterate |-> (params.algorithm = "IterativeClusterFit")]

\* the fitter compress_block_masked constructs and everything it is handed:
\* the three fitters read the block through `colours` alone
colour_fit(format, colours, params) ==
    IF colours.count = 1
    THEN [fit |-> "SingleColourFit", colours |-> colours, format |-> format]
    ELSE IF params.algorithm = "RangeFit" \/ colours.count = 0
    THEN [fit |-> "RangeFit", colours |-> colours, format |-> format,
          weights |-> params.weights]
    ELSE [fit |-> "ClusterFit", colours |-> colours, format |-> format,
          weights |-> params.weights,
          iterate |-> (params.algorithm = "IterativeClusterFit")]

\* mutant of compress_block_masked: Bc5 stores channel 1 first
compress_block_masked_swapped(format, rgba, mask, params) ==
    LET alpha == CASE format = "Bc1" -> [k \in {} |-> 0]
                   [] format = "Bc2" -> compress_bc2(rgba, mask)
                   [] format = "Bc3" -> compress_bc3(rgba, 3, mask)
                   [] format = "Bc4" -> compress_bc3(rgba, 0, mask)
                   [] format = "Bc5" -> Concat(compress_bc3(rgba, 1, mask), 8,
                                               compress_bc3(rgba, 0, mask), 8)
        colours == ColourSet_new(rgba, mask, format, params.weigh_colour_by_alpha)
    IN  IF format \in {"Bc1", "Bc2", "Bc3"}
        THEN [alpha |-> alpha,
              colour_offset |-> IF format = "Bc1" THEN 0 ELSE 8,
              colour |-> colour_fit(format, colours, params)]
        ELSE [alpha |-> alpha]

\* Format::compress_block_masked(rgba, mask, params, output) on a block_size
\* slice: `alpha` is the bytes stored at output[0..], `colour` the fitter run
\* whose compress() stores output[colour_offset .. colour_offset + 8]
compress_block_masked(format, rgba, mask, params) ==
    LET alpha == CASE format = "Bc1" -> [k \in {} |-> 0]
                   [] format = "Bc2" -> compress_bc2(rgba, mask)
                   [] format = "Bc3" -> compress_bc3(rgba, 3, mask)
                   [] format = "Bc4" -> compress_bc3(rgba, 0, mask)
                   [] format = "Bc5" -> Concat(compress_bc3(rgba, 0, mask), 8,
                                               compress_bc3(rgba, 1, mask), 8)
        colours == ColourSet_new(rgba, mask, format, params.weigh_colour_by_alpha)
    IN  IF format \in {"Bc1", "Bc2", "Bc3"}
        THEN [alpha |-> alpha,
              colour_offset |-> IF format = "Bc1" THEN 0 ELSE 8,
              colour |-> colour_fit(format, colours, params)]
        ELSE [alpha |-> alpha]

----------------------------------------------------------------------------
(* Row tasks: squish/src/lib.rs, the closures Format::decompress and
   Format::compress hand to par_chunks_mut(..).enumerate().for_each *)

\* one pass of the `for x in 0..blocks_wide` loop of the closure of
\* decompress for row chunk y: the block is decoded and its pixels within
\* bounds are stored into output_row, in the order of the loops; a store
\* beyond the end of output_row panics and the stores before it stay
decompress_row_block(format, data, width, height, output, y, x) ==
    LET row_size == width * 4 * 4
        row_len == chunk_len(4 * width * height, row_size, y)
        rgba == decompress_block_at(format, data, width, x, y)
        stores == { [rank |-> (t[1] * 4 + t[2]) * 4 + t[3],
                     at |-> 4 * ((4 * x + t[2]) + t[1] * width) + t[3],
                     value |-> rgba[t[2] + t[1] * 4][t[3]]] :
                        t \in { u \in (0..3) \X (0..3) \X (0..3) :
                                    4 * x + u[2] < width /\ u[1] < height } }
        bad == {s \in stores : s.at >= row_len}
        done == {s \in stores : \A b \in bad : s.rank < b.rank}
    IN  [panicked |-> bad # {},
         output |-> [g \in DOMAIN output |->
                        IF \E s \in done : y * row_size + s.at = g
                        THEN (CHOOSE s \in done : y * row_size + s.at = g).value
                        ELSE output[g]]]

\* mutant of source_slot: source_rgba is declared once, outside the row closure
source_slot_shared(y) == 0

\* the source_rgba a row task works on: `let mut source_rgba` is declared
\* inside the closure of row chunk y, one array per row task
source_slot(y) == y

\* the first half of the closure of compress for block chunk x of row chunk
\* y: the pixels within bounds are copied over source_rgba
copy_pixels(rgba, width, height, source, y, x) ==
    [index \in 0..15 |->
        LET sx == 4 * x + (index % 4)
            sy == 4 * y + (index \div 4)
            src_index == 4 * (width * sy + sx)
        IN  IF sx < width /\ sy < height
            THEN Slice(rgba, src_index, 4)
            ELSE source[index]]

\* the second half: compress_block_masked is called on source_rgba, with the
\* mask of the pixels within bounds, and stores into block chunk x of row
\* chunk y
compress_row_block(format, width, height, params, source, y, x) ==
    [at |-> block_offset(format, width, height, x, y) \div block_size(format),
     block |-> compress_block_masked(format, source, tile_mask(x, y, width, height), params)]

----------------------------------------------------------------------------
(* Colour fitting: lib/src/colourfit.rs, squish/src/colourfit/*.rs *)

(* The fitters search with f32 arithmetic (a power iteration, least squares,  *)
(* weighted distances).  The model keeps their control flow, the indices they *)
(* may hand to remap_indices and the serialisation, and takes the outcome of  *)
(* the arithmetic as an input `o` of the call: whether the error found beats  *)
(* best_error (`wins`), the endpoints settled on (`start`, `end`) and the     *)
(* per-point palette indices (`source`).  Every outcome the arithmetic can    *)
(* have is one of these inputs; where the source fixes the outcome (an empty  *)
(* point set, a first call against best_error = MAX) the model fixes it too.  *)

\* (grid * v + half).truncate() * gridrcp for a point v = <<r, g, b>> / 255:
\* 31 r / 255 + 1/2 is never within 1/510 of an integer, so truncf sees the
\* floor of the exact value
grid_clamp(v) ==
    << <<(62 * v[1][1] + 255) \div 510, 31>>,
       <<(126 * v[2][1] + 255) \div 510, 63>>,
       <<(62 * v[3][1] + 255) \div 510, 31>> >>

\* Vec3::dot of a point <<r, g, b>> / 255 with an axis <<x, y, z, d>> (the
\* vector <<x, y, z>> / d; d = 0 is a NaN axis), in units of 1 / (255 d)
dot(v, axis) == v[1][1] * axis[1] + v[2][1] * axis[2] + v[3][1] * axis[3]

\* the range loop of RangeFit::new over values[0 .. n - 1]; every comparison
\* with a NaN dot product is false
RECURSIVE range_scan(_, _, _)
range_scan(colours, axis, n) ==
    IF n = 1
    THEN [start |-> colours.points[0], end |-> colours.points[0], first |-> 0, last |-> 0]
    ELSE LET r == range_scan(colours, axis, n - 1)
             val == colours.points[n - 1]
         IN  IF axis[4] = 0 THEN r
             ELSE IF dot(val, axis) < dot(colours.points[r.first], axis)
             THEN [r EXCEPT !.start = val, !.first = n - 1]
             ELSE IF dot(val, axis) > dot(colours.points[r.last], axis)
             THEN [r EXCEPT !.end = val, !.last = n - 1]
             ELSE r

\* RangeFit::new(colourset, format, weights): the endpoints it saves, for the
\* axis principle_component returned
RangeFit_new(colours, axis) ==
    LET zero == << <<0, 255>>, <<0, 255>>, <<0, 255>> >>
        r == IF colours.count > 0 THEN range_scan(colours, axis, colours.count)
             ELSE [start |-> zero, end |-> zero]
    IN  [start |-> grid_clamp(r.start), end |-> grid_clamp(r.end)]

\* the indices ClusterFit gives the points from the clusters it settled on
\* (`unordered`): in compress3 [0, i) -> 0, [i, j) -> 2, [j, count) -> 1 (call
\* it with k = j); in compress4 [0, i) -> 0, [i, j) -> 2, [j, k) -> 3,
\* [k, count) -> 1; order[m] is the point at position m of the ordering
cluster_indices(order, count, i, j, k) ==
    [p \in 0..15 |->
        LET at == {m \in 0..(count - 1) : order[m] = p}
        IN  IF at = {} THEN 0
            ELSE LET m == CHOOSE n \in at : TRUE
                 IN  IF m >= k THEN 1 ELSE IF m >= j THEN 3 ELSE IF m >= i THEN 2 ELSE 0]

\* ColourFitImpl::compress3 of the three fitters: best_compressed after the
\* call; o is what the arithmetic settled on
compress3(fit, best, o) ==
    IF ~o.wins THEN best
    ELSE IF fit.fit = "RangeFit"
    THEN write3(RangeFit_new(fit.colours, o.axis).start, RangeFit_new(fit.colours, o.axis).end,
                remap_indices(fit.colours, o.source))
    ELSE write3(o.start, o.end, remap_indices(fit.colours, o.source))

\* ColourFitImpl::compress4 of the three fitters
compress4(fit, best, o) ==
    IF ~o.wins THEN best
    ELSE IF fit.fit = "RangeFit"
    THEN write4(RangeFit_new(fit.colours, o.axis).start, RangeFit_new(fit.colours, o.axis).end,
                remap_indices(fit.colours, o.source))
    ELSE write4(o.start, o.end, remap_indices(fit.colours, o.source))

\* mutant of ColourFit_compress: compress4 runs on transparent BC1 blocks too
ColourFit_compress_both(fit, o3, o4) ==
    LET zero == [k \in 0..7 |-> 0]
    IN  IF fit.format = "Bc1"
        THEN compress4(fit, compress3(fit, zero, o3), o4)
        ELSE compress4(fit, zero, o4)

\* ColourFit::compress(block): the 8 bytes copied into block; best_compressed
\* starts as [0u8; 8]
ColourFit_compress(fit, o3, o4) ==
    LET zero == [k \in 0..7 |-> 0]
    IN  IF fit.format = "Bc1"
        THEN IF ~fit.colours.transparent
             THEN compress4(fit, compress3(fit, zero, o3), o4)
             ELSE compress3(fit, zero, o3)
        ELSE compress4(fit, zero, o4)

----------------------------------------------------------------------------
(* Cluster fit: squish/src/colourfit/cluster.rs, squish/src/math.rs *)

MAX_ITERATIONS == 8

\* Sym3x3::weighted_covariance(points, weights) has rows that sum to exactly
\* zero: two points of equal weight w whose channels are 0 or 1 with the
\* same channel sum.  The centroid is (p0 w + p1 w) / 2w, every channel 0,
\* 1/2 or 1; a = p - centroid has channels 0 and +-1/2, the matrix entries
\* are 0 and +-w/2, and each row adds w/2 to -w/2: every step is exact in f32
zero_row_sums(colours) ==
    /\ colours.count = 2
    /\ colours.weights[0] = colours.weights[1]
    /\ \A i \in 0..1, c \in 1..3 : colours.points[i][c][1] \in {0, 255}
    /\ colours.points[0][1][1] + colours.points[0][2][1] + colours.points[0][3][1]
          = colours.points[1][1][1] + colours.points[1][2][1] + colours.points[1][3][1]

\* Sym3x3::principle_component of the covariance of the point set: the first
\* power iteration multiplies the matrix by (1, 1, 1); when the rows sum to
\* zero, w = 0, a = max(0, 0, 0) = 0 and v = w * reciprocal(a) = 0 * inf = NaN
\* in every lane, which the later iterations keep; otherwise the vector the
\* eight f32 iterations settle on
principle_component(colours, settled) ==
    IF zero_row_sums(colours) THEN <<0, 0, 0, 0>> ELSE settled

\* best_end - best_start of endpoints on the 5:6:5 grid, as an axis
axis_between(start, end) ==
    <<63 * (end[1][1] - start[1][1]), 31 * (end[2][1] - start[2][1]),
      63 * (end[3][1] - start[3][1]), 1953>>

\* the sort of construct_ordering: dps holds (i, values[i].dot(axis)) for
\* i < count and (0, f32::MAX) beyond; sort_unstable_by(fcmp) puts finite keys
\* in increasing order and every non-finite key after every finite one.
\* f32::MAX is finite and above every finite dot product, so the padding
\* follows finite dot products and precedes NaN ones.  Entries with equal
\* keys end in an order the sort does not specify (`ties`).  The result is
\* the index of each entry, as stored into order[iteration]
construct_ordering_sort(colours, axis, ties) ==
    LET count == colours.count
        key(i) == dot(colours.points[i], axis)
        tie(i, j) == IF ties = "up" THEN i < j ELSE i > j
        before(i, j) == IF axis[4] = 0 THEN tie(i, j)
                        ELSE key(i) < key(j) \/ (key(i) = key(j) /\ tie(i, j))
        sorted == [m \in 0..(count - 1) |->
                      CHOOSE i \in 0..(count - 1) :
                          Cardinality({j \in 0..(count - 1) : before(j, i)}) = m]
        padding == 16 - count
    IN  [m \in 0..15 |->
            IF axis[4] # 0
            THEN IF m < count THEN sorted[m] ELSE 0
            ELSE IF m < padding THEN 0 ELSE sorted[m - padding]]

\* ClusterFit::construct_ordering(axis, iteration) on a fitter whose order
\* array is `order`: the ordering stored, whether it differs from those of
\* the iterations before it, and if so the points copied to
\* points_weights[0 .. count) (by their index in the point set) and how often
\* each point went into xsum_wsum
construct_ordering(colours, iteration, order, sorted) ==
    LET unique == \A i \in 0..(iteration - 1) : \E j \in 0..15 : sorted[j] # order[i][j]
    IN  [unique |-> unique,
         order |-> sorted,
         points_weights |-> [i \in 0..(colours.count - 1) |-> sorted[i]],
         xsum_wsum |-> [p \in 0..(colours.count - 1) |->
                           Cardinality({i \in 0..(colours.count - 1) : sorted[i] = p})]]

----------------------------------------------------------------------------
(* The blocks the decoders are run on *)

Bytes8(b0, b1, b2, b3, b4, b5, b6, b7) ==
    [i \in 0..7 |-> CASE i = 0 -> b0 [] i = 1 -> b1 [] i = 2 -> b2 [] i = 3 -> b3
                      [] i = 4 -> b4 [] i = 5 -> b5 [] i = 6 -> b6 [] i = 7 -> b7]

\* the sub-blocks of test_data.rs
BC1_GRAY_encoded == Bytes8(0, 0, 255, 255, 17, 104, 41, 68)

BC1_COLOUR_encoded == Bytes8(169, 252, 69, 251, 0, 255, 85, 85)

BC2_alpha_encoded == Bytes8(16, 50, 84, 118, 152, 186, 220, 254)

BC2_GRAY_colour_encoded == Bytes8(255, 255, 0, 0, 68, 61, 124, 17)

BC3_alpha_encoded == Bytes8(36, 219, 134, 198, 230, 134, 198, 230)

BC4_GRAY_encoded == Bytes8(127, 132, 247, 109, 224, 7, 236, 251)

BC5_GRAY_alpha1_encoded == Bytes8(127, 132, 190, 127, 192, 6, 126, 223)

LINEAR_RAMP == [i \in 0..15 |-> 17 * i]

\* an 8-byte sub-block whose byte i is seed + step * i: every byte value occurs
\* at every position as seed runs over 0..255
GenBytes(seed, step) == [i \in 0..7 |-> (seed + step * i) % 256]

AlphaPool ==
    {GenBytes(seed, step) : seed \in 0..MaxAlphaSeed, step \in AlphaSteps}
        \cup {BC2_alpha_encoded, BC3_alpha_encoded, BC4_GRAY_encoded, BC5_GRAY_alpha1_encoded}

\* 16-bit endpoints: a multiplicative scramble of the seed, and the extremes
Endpoint(seed) == (seed * 40503) % 65536

EndpointPool == {Endpoint(seed) : seed \in 0..MaxEndpointSeed} \cup {65535, 64681, 64325}

\* index bytes: the test vectors', and one with all four indices in every byte
IndexPool ==
    { <<17, 104, 41, 68>>, <<0, 255, 85, 85>>, <<68, 61, 124, 17>>, <<27, 228, 177, 78>> }

ColourBytes(a, b, idx) ==
    Bytes8(a % 256, a \div 256, b % 256, b \div 256, idx[1], idx[2], idx[3], idx[4])

ColourPool == {ColourBytes(a, b, idx) : a \in EndpointPool, b \in EndpointPool, idx \in IndexPool}

\* the second 8 bytes of a block: a colour sub-block, or for Bc5 an alpha one
SecondPool(format) ==
    IF format \in {"Bc1", "Bc2", "Bc3"}
    THEN {BC1_GRAY_encoded, BC1_COLOUR_encoded, BC2_GRAY_colour_encoded,
          ColourBytes(64325, 64681, <<27, 228, 177, 78>>)}
    ELSE {BC5_GRAY_alpha1_encoded, BC3_alpha_encoded, GenBytes(200, 37), GenBytes(9, 219)}

----------------------------------------------------------------------------
(* The colours and indices the serialisers are run on *)

\* f32 components: below 0, above 1, on and between grid points, a rounding
\* tie (128/256 * 31 = 15.5), a NaN
Components ==
    << <<0, 256>>, <<256, 256>>, <<128, 256>>, <<129, 256>>, <<-3, 256>>, <<300, 256>>,
       <<7, 31>>, <<8, 31>>, <<20, 63>>, <<21, 63>>, <<0, 0>>, <<64, 256>>, <<1, 256>> >>

VecOf(seed) ==
    LET n == Len(Components)
    IN  << Components[1 + (seed % n)],
           Components[1 + (((seed \div 2) + 3) % n)],
           Components[1 + (((seed \div 3) + 7) % n)] >>

\* a colour next to v: packs to the same endpoint unless a rounding boundary
\* lies between them
Nudge(v) ==
    [c \in 1..3 |-> IF v[c][2] = 256 THEN <<v[c][1] + 1, 256>> ELSE v[c]]

VecPool == {VecOf(seed) : seed \in 0..MaxVecSeed}

\* per-texel palette indices: uniform ones, and mixes of 0..3
IndicesPool ==
    {[i \in 0..15 |-> k] : k \in 0..3}
        \cup {[i \in 0..15 |-> (i + k) % 4] : k \in 0..1}
        \cup {[i \in 0..15 |-> ((i \div 4) + 2 * i) % 3]}

----------------------------------------------------------------------------
(* The images the image-level functions are run on *)

\* three blocks of each format that decode to different texels
DataBlocks(format) ==
    CASE format = "Bc1" -> <<BC1_GRAY_encoded, BC1_COLOUR_encoded,
                             ColourBytes(64325, 64681, <<27, 228, 177, 78>>)>>
      [] format = "Bc2" -> <<Concat(BC2_alpha_encoded, 8, BC2_GRAY_colour_encoded, 8),
                             Concat(BC2_alpha_encoded, 8, BC1_COLOUR_encoded, 8),
                             Concat(GenBytes(9, 219), 8, BC1_GRAY_encoded, 8)>>
      [] format = "Bc3" -> <<Concat(BC3_alpha_encoded, 8, BC2_GRAY_colour_encoded, 8),
                             Concat(BC3_alpha_encoded, 8, BC1_COLOUR_encoded, 8),
                             Concat(GenBytes(200, 37), 8, BC1_GRAY_encoded, 8)>>
      [] format = "Bc4" -> <<BC4_GRAY_encoded, BC3_alpha_encoded, GenBytes(200, 37)>>
      [] format = "Bc5" -> <<Concat(BC4_GRAY_encoded, 8, BC5_GRAY_alpha1_encoded, 8),
                             Concat(BC3_alpha_encoded, 8, GenBytes(9, 219), 8),
                             Concat(GenBytes(200, 37), 8, BC4_GRAY_encoded, 8)>>

\* compressed data of compressed_size bytes: block k is one of DataBlocks
ImageData(format, width, height, seed) ==
    [g \in 0..(compressed_size(format, width, height) - 1) |->
        LET k == g \div block_size(format)
        IN  DataBlocks(format)[1 + ((seed + k * (1 + (seed \div 3))) % 3)][g % block_size(format)]]

\* an RGBA image of 4 * width * height bytes whose pixels all differ
ImagePixels(width, height, seed) ==
    [g \in 0..(4 * width * height - 1) |-> (53 * seed + 29 * g + 7 * (g \div 4)) % 256]

----------------------------------------------------------------------------
(* The blocks the block encoder is run on *)

\* texels: opaque, translucent and transparent ones, two with the same
\* colour and different alpha, alpha on both sides of the BC1 threshold
TexelPalette ==
    << Texel(255, 0, 0, 255), Texel(255, 0, 0, 100), Texel(0, 0, 255, 255),
       Texel(10, 20, 30, 0), Texel(255, 255, 255, 128), Texel(0, 0, 0, 127),
       Texel(0, 255, 0, 200) >>

\* uniform blocks (seed a multiple of 3) and blocks cycling through the palette
BlockOf(seed) ==
    [i \in 0..15 |->
        TexelPalette[1 + (((seed \div 3) + i * (seed % 3)) % Len(TexelPalette))]]

\* the texels a second block differs in: an inner one, the right column, the
\* bottom row
WherePool == {{5}, {3, 7, 11, 15}, {12, 13, 14, 15}}

\* what the second block holds there
OtherTexels == {Texel(255, 0, 0, 255), Texel(1, 2, 3, 77)}

\* masks: all texels, none, 3 columns, 3 rows, 3 x 3, all but texel 5
MaskPool == {65535, 0, 30583, 4095, 1911, 65503}

ParamsPool ==
    { Params_default,
      [algorithm |-> "RangeFit", weights |-> COLOUR_WEIGHTS_UNIFORM,
       weigh_colour_by_alpha |-> FALSE],
      [algorithm |-> "IterativeClusterFit", weights |-> COLOUR_WEIGHTS_UNIFORM,
       weigh_colour_by_alpha |-> TRUE],
      [algorithm |-> "ClusterFit", weights |-> COLOUR_WEIGHTS_PERCEPTUAL,
       weigh_colour_by_alpha |-> TRUE] }

----------------------------------------------------------------------------
(* The blocks and the outcomes the colour fitters are run on *)

\* a tile with every alpha set to 255
Opaque(rgba) == [p \in 0..15 |-> Texel(rgba[p][0], rgba[p][1], rgba[p][2], 255)]

\* black and white texels in turn, opaque
Chequered == [p \in 0..15 |-> IF p % 2 = 0 THEN Texel(0, 0, 0, 255)
                                           ELSE Texel(255, 255, 255, 255)]

\* mixed alpha, several opaque colours, one opaque colour, one translucent
\* colour, two opaque colours, two opaque colours and a transparent texel 5
FitBlocks ==
    << BlockOf(1), Opaque(BlockOf(1)), BlockOf(0), BlockOf(3), Chequered,
       [Chequered EXCEPT ![5] = Texel(1, 2, 3, 77)] >>

FitBlockOf(seed) == FitBlocks[1 + (seed % Len(FitBlocks))]

\* masks: all texels, none, all but texel 5, 3 columns
FitMasks == {65535, 0, 65503, 30583}

\* axes principle_component may return: along the grey diagonal either way,
\* and NaN (a zero covariance matrix: 0 * reciprocal(0))
Axes == << <<1, 1, 1, 1>>, <<-1, -1, -1, 1>>, <<0, 0, 0, 0>> >>

\* endpoints on the 5:6:5 grid: black to white, white to black, equal
GridPairs ==
    << [start |-> << <<0, 31>>, <<0, 63>>, <<0, 31>> >>,
        end |-> << <<31, 31>>, <<63, 63>>, <<31, 31>> >>],
       [start |-> << <<31, 31>>, <<63, 63>>, <<31, 31>> >>,
        end |-> << <<0, 31>>, <<0, 63>>, <<0, 31>> >>],
       [start |-> << <<15, 31>>, <<31, 63>>, <<15, 31>> >>,
        end |-> << <<15, 31>>, <<31, 63>>, <<15, 31>> >>] >>

\* the per-point indices a fitter hands to remap_indices in compress3
\* (codes = 3) or compress4 (codes = 4): SingleColourFit [index; 16] with
\* index 0 or 2, RangeFit `closest` (below the codebook length for the first
\* count points, 0 beyond), ClusterFit `unordered`
SourceOf(fit, codes, d) ==
    LET count == fit.colours.count
    IN  CASE fit.fit = "SingleColourFit" -> [p \in 0..15 |-> 2 * (d % 2)]
          [] fit.fit = "RangeFit" ->
                [p \in 0..15 |-> IF p < count THEN (p + d) % codes ELSE 0]
          [] fit.fit = "ClusterFit" ->
                LET order == [m \in 0..15 |->
                                 IF m >= count THEN 0
                                 ELSE IF d % 2 = 0 THEN m ELSE count - 1 - m]
                    i == Min(d, count - 1)
                    j == Min(count, Max(i, 1))
                    k == IF codes = 3 THEN j ELSE Min(count, j + 1)
                IN  cluster_indices(order, count, i, j, k)

\* the value best_error starts from (f32::MAX in RangeFit and ClusterFit,
\* u32::MAX in SingleColourFit): above every error a fit can find
best_error_MAX == 1000000

\* mutant of beats: a fit that ties with best_error replaces it
beats_or_ties(error, best_error) == error <= best_error

\* "save this scheme if it wins": the comparison with best_error the three
\* fitters make before they write the block and save the error
beats(error, best_error) == error < best_error

\* what the arithmetic of the two calls settles on, by seed: the error found,
\* the endpoints and the indices.  The first call of a fitter beats
\* best_error = MAX: SingleColourFit and RangeFit compare a finite sum with
\* it, ClusterFit (count >= 2) has the finite candidate i = 0, j = 1.  In BC1
\* the second call finds a lower, an equal or a higher error than the first;
\* RangeFit with an empty point set finds error 0 twice
NumericsOf(fit, seed) ==
    LET d1 == seed % 2
        d2 == (seed \div 2) % 3
        d3 == (seed \div 6) % 3
        pair3 == GridPairs[1 + d2]
        pair4 == GridPairs[1 + ((d2 + d3) % 3)]
        second == fit.format = "Bc1"
        empty == fit.fit = "RangeFit" /\ fit.colours.count = 0
        error3 == IF empty THEN 0 ELSE 2
        error4 == IF empty THEN 0 ELSE IF d1 = 1 THEN 1 ELSE 2 + (d3 % 2)
        best3 == IF beats(error3, best_error_MAX) THEN error3 ELSE best_error_MAX
    IN  [o3 |-> [wins |-> beats(error3, best_error_MAX), error |-> error3,
                 axis |-> Axes[1 + d2],
                 start |-> pair3.start, end |-> pair3.end,
                 source |-> SourceOf(fit, 3, d3)],
         o4 |-> [wins |-> beats(error4, IF second THEN best3 ELSE best_error_MAX),
                 error |-> error4,
                 axis |-> Axes[1 + d2],
                 start |-> pair4.start, end |-> pair4.end,
                 source |-> SourceOf(fit, 4, d3 + d1)]]

----------------------------------------------------------------------------
(* The tiles the alpha encoders are run on *)

\* a tile whose channel values step through the bytes: every byte value
\* occurs at every texel as seed runs over 0..255; step 0 is a uniform tile,
\* seed 0 with step 17 is LINEAR_RAMP; the other channels differ from it
ValueSteps == {0, 17, 37, 101}

ValueTile(channel, seed, step) ==
    [i \in 0..15 |->
        [c \in 0..3 |-> IF c = channel THEN (seed + step * i) % 256
                        ELSE (seed + 7 * c + 3 * i) % 256]]

\* red and green texels in turn, opaque
RedGreen == [p \in 0..15 |-> IF p % 2 = 0 THEN Texel(255, 0, 0, 255)
                                          ELSE Texel(0, 255, 0, 255)]

\* blocks the cluster fit is run on: black and white, red and green, a
\* palette of six colours with mixed alpha, the same opaque, sixteen colours
ClusterBlocks ==
    << Chequered, RedGreen, BlockOf(1), Opaque(BlockOf(1)), ValueTile(0, 0, 17) >>

\* masks: all texels, the first two, 3 columns
ClusterMasks == {65535, 3, 30583}

\* endpoints on the 5:6:5 grid the least-squares search may settle on
ClusterPairs ==
    << [start |-> << <<0, 31>>, <<0, 63>>, <<0, 31>> >>,
        end |-> << <<31, 31>>, <<63, 63>>, <<31, 31>> >>],
       [start |-> << <<0, 31>>, <<0, 63>>, <<0, 31>> >>,
        end |-> << <<31, 31>>, <<0, 63>>, <<0, 31>> >>],
       [start |-> << <<31, 31>>, <<0, 63>>, <<0, 31>> >>,
        end |-> << <<0, 31>>, <<63, 63>>, <<0, 31>> >>],
       [start |-> << <<0, 31>>, <<0, 63>>, <<31, 31>> >>,
        end |-> << <<31, 31>>, <<63, 63>>, <<0, 31>> >>],
       [start |-> << <<31, 31>>, <<63, 63>>, <<31, 31>> >>,
        end |-> << <<0, 31>>, <<0, 63>>, <<0, 31>> >>],
       [start |-> << <<15, 31>>, <<31, 63>>, <<15, 31>> >>,
        end |-> << <<15, 31>>, <<31, 63>>, <<15, 31>> >>],
       [start |-> << <<0, 31>>, <<63, 63>>, <<0, 31>> >>,
        end |-> << <<31, 31>>, <<0, 63>>, <<31, 31>> >>],
       [start |-> << <<0, 31>>, <<0, 63>>, <<31, 31>> >>,
        end |-> << <<0, 31>>, <<63, 63>>, <<0, 31>> >>],
       [start |-> << <<31, 31>>, <<63, 63>>, <<0, 31>> >>,
        end |-> << <<0, 31>>, <<0, 63>>, <<31, 31>> >>] >>

\* the endpoints of the best candidate of ordering iteration n
ClusterPairOf(seed, n) ==
    ClusterPairs[1 + ((seed + n * (1 + (seed % 2))) % Len(ClusterPairs))]

\* masks: all texels, none, 3 columns, odd texels, even texels, all but texel 0
AlphaMasks == {65535, 0, 30583, 43690, 21845, 65534}

\* tiles with a few small values and one or more zeros, and their mirror
\* images at the top of the range: zeros texels of 0, then sixes texels of
\* 6, then texels of 1, and a 7 in the last texel
EdgeTile(channel, seed) ==
    LET zeros == seed % 3
        sixes == (seed \div 3) % 3
        high == (seed \div 9) % 2 = 1
        low(i) == IF i < zeros THEN 0
                  ELSE IF i < zeros + sixes THEN 6
                  ELSE IF i = 15 THEN 7 ELSE 1
    IN  [i \in 0..15 |->
            [c \in 0..3 |-> IF c # channel THEN (40 * c + i) % 256
                             ELSE IF high THEN 255 - low(i) ELSE low(i)]]

\* the tiles alpha::compress_bc3 is run on
Bc3Tile(channel, seed) ==
    IF seed <= MaxEdgeSeed THEN EdgeTile(channel, seed)
    ELSE ValueTile(channel, (seed - MaxEdgeSeed - 1) \div 3,
                   IF seed % 3 = 0 THEN 0 ELSE IF seed % 3 = 1 THEN 17 ELSE 37)

\* masks: all texels, 3 columns, all but texel 0, none, the first and the
\* last texel
Bc3Masks == {65535, 30583, 65534, 0, 32769}

\* the blocks ColourSet::new is run on: uniform blocks and blocks cycling
\* through TexelPalette (repeated colours, one colour with two alphas), then
\* blocks of sixteen different colours with alpha around the BC1 threshold
SetBlockOf(seed) ==
    IF seed <= 20 THEN BlockOf(seed) ELSE ValueTile(0, 40 * (seed - 21), 17)

\* per-point indices handed to remap_indices
SetSources == {[p \in 0..15 |-> p % 4], [p \in 0..15 |-> (p + 2) % 3]}

\* endpoint bytes the alpha writers are run on: both ends of the range, near
\* and far pairs
AlphaEndpoints == {0, 1, 7, 100, 105, 107, 248, 255}

\* sixteen 3-bit indices: every index at every texel as seed runs over 0..7,
\* then the blocks of one index
AlphaIndices(seed) ==
    [i \in 0..15 |-> IF seed < 8 THEN (seed + i) % 8 ELSE seed % 8]

----------------------------------------------------------------------------
(* Actions *)

NoArgs == [none |-> TRUE]

Init ==
    /\ op = "init"
    /\ args = NoArgs
    /\ ret = NoArgs

\* no call has been made yet: every behaviour is one call and what it returns
Idle == op = "init"

\* Format::compressed_size(width, height)
CompressedSize ==
    \E format \in Format, width \in 1..MaxSize, height \in 1..MaxSize :
        /\ Idle
        /\ op' = "compressed_size"
        /\ args' = [format |-> format, width |-> width, height |-> height]
        /\ ret' = compressed_size(format, width, height)

\* Format::decompress_block(block): one block of block_size bytes
DecompressBlock ==
    \E format \in Format, first \in AlphaPool : \E second \in SecondPool(format) :
        LET block == IF block_size(format) = 8
                     THEN (IF format = "Bc1" THEN second ELSE first)
                     ELSE Concat(first, 8, second, 8)
        IN  /\ Idle
            /\ op' = "decompress_block"
            /\ args' = [format |-> format, block |-> block]
            /\ ret' = decompress_block(format, block)

\* colourblock::decompress(bytes, is_bc1)
ColourblockDecompress ==
    \E bytes \in ColourPool, is_bc1 \in BOOLEAN :
        /\ Idle
        /\ op' = "colourblock_decompress"
        /\ args' = [bytes |-> bytes, is_bc1 |-> is_bc1]
        /\ ret' = colourblock_decompress(bytes, is_bc1)

\* colourblock::write3(start, end, indices, block)
Write3 ==
    \E start \in VecPool, indices \in IndicesPool :
        \E end \in VecPool \cup {Nudge(start)} :
            /\ Idle
            /\ op' = "write3"
            /\ args' = [start |-> start, end |-> end, indices |-> indices]
            /\ ret' = write3(start, end, indices)

\* colourblock::write4(start, end, indices, block)
Write4 ==
    \E start \in VecPool, indices \in IndicesPool :
        \E end \in VecPool \cup {Nudge(start)} :
            /\ Idle
            /\ op' = "write4"
            /\ args' = [start |-> start, end |-> end, indices |-> indices]
            /\ ret' = write4(start, end, indices)

\* Format::decompress(data, width, height, output), with
\* len(data) = compressed_size(width, height) and len(output) = 4 * width * height
Decompress ==
    \E format \in Format, width \in 1..MaxDim, height \in 1..MaxDim,
       seed \in 0..MaxDataSeed, fill \in {0, 170} :
        LET data == ImageData(format, width, height, seed)
            output == [g \in 0..(4 * width * height - 1) |-> fill]
        IN  /\ Idle
            /\ op' = "decompress"
            /\ args' = [format |-> format, data |-> data, width |-> width,
                        height |-> height, output |-> output]
            /\ ret' = decompress(format, data, width, height, output)

\* Format::compress(rgba, width, height, params, output), with
\* len(rgba) = 4 * width * height and an output buffer one byte short of
\* compressed_size(width, height), or exactly that long, or longer
Compress ==
    \E format \in Format, width \in 1..MaxDim, height \in 1..MaxDim,
       seed \in 0..MaxImageSeed, extra \in (-1)..MaxExtra :
        LET rgba == ImagePixels(width, height, seed)
            out_len == compressed_size(format, width, height) + extra
        IN  /\ Idle
            /\ op' = "compress"
            /\ args' = [format |-> format, rgba |-> rgba, width |-> width,
                        height |-> height, out_len |-> out_len]
            /\ ret' = compress(format, rgba, width, height, out_len)

\* Format::compress_block_masked(rgba, mask, params, output), called on a
\* block and on a second block with the same format, mask and params
CompressBlockMasked ==
    \E format \in Format, seed \in 0..MaxBlockSeed, where \in WherePool,
       texel \in OtherTexels, mask \in MaskPool, params \in ParamsPool :
        LET rgba == BlockOf(seed)
            other == [i \in 0..15 |-> IF i \in where THEN texel ELSE rgba[i]]
        IN  /\ Idle
            /\ op' = "compress_block_masked"
            /\ args' = [format |-> format, rgba |-> rgba, other |-> other,
                        mask |-> mask, params |-> params]
            /\ ret' = [block |-> compress_block_masked(format, rgba, mask, params),
                       other |-> compress_block_masked(format, other, mask, params)]

\* ColourFit::compress of the fitter selected, its arithmetic settled as o
CompressColourFit(format, rgba, mask, params, fit, o) ==
    /\ Idle
    /\ op' = "compress_colour"
    /\ args' = [format |-> format, rgba |-> rgba, mask |-> mask,
                params |-> params, o3 |-> o.o3, o4 |-> o.o4]
    /\ ret' = [fit |-> fit, block |-> ColourFit_compress(fit, o.o3, o.o4)]

\* the fitter Format::compress_block_masked selects for the block
CompressColourSet(format, rgba, mask, params, seed) ==
    \E fit \in {compress_block_masked(format, rgba, mask, params).colour} :
        \E o \in {NumericsOf(fit, seed)} :
            CompressColourFit(format, rgba, mask, params, fit, o)

\* the colour half of Format::compress_block_masked: ColourSet::new, the
\* fitter selected, and its ColourFit::compress into the colour sub-block
CompressColour ==
    \E format \in {"Bc1", "Bc2", "Bc3"}, block \in 0..MaxFitBlockSeed, mask \in FitMasks,
       algorithm \in Algorithm, seed \in 0..MaxNumericsSeed :
        CompressColourSet(format, FitBlockOf(block), mask,
                          [Params_default EXCEPT !.algorithm = algorithm], seed)

\* ColourFit::compress(block) is entered on the fitter compress_block_masked
\* constructed: best_error = MAX, best_compressed = [0u8; 8], nothing called
\* yet; `block` is the output slice, holding what the caller left in it
ColourFitCompress ==
    \E format \in {"Bc1", "Bc2", "Bc3"}, block \in 0..MaxFitBlockSeed, mask \in FitMasks,
       algorithm \in Algorithm, seed \in 0..MaxNumericsSeed :
        \E params \in {[Params_default EXCEPT !.algorithm = algorithm]} :
            \E fit \in {compress_block_masked(format, FitBlockOf(block), mask, params).colour} :
                \E o \in {NumericsOf(fit, seed)} :
                    /\ Idle
                    /\ op' = "colourfit_compress"
                    /\ args' = [format |-> format, rgba |-> FitBlockOf(block), mask |-> mask,
                                params |-> params, o3 |-> o.o3, o4 |-> o.o4]
                    /\ ret' = [fit |-> fit, pc |-> "entered", calls |-> <<>>,
                               best_error |-> best_error_MAX,
                               best_compressed |-> [k \in 0..7 |-> 0],
                               block |-> [k \in 0..7 |-> 204]]

\* `if self.is_bc1() { self.compress3(); ...`: the three-colour fit, which
\* writes best_compressed and saves its error if it beats best_error
ColourFitCompress3 ==
    /\ op = "colourfit_compress"
    /\ ret.pc = "entered"
    /\ ret.fit.format = "Bc1"
    /\ \E won \in {beats(args.o3.error, ret.best_error)} :
          ret' = [ret EXCEPT
                    !.calls = Append(@, "compress3"),
                    !.best_compressed = compress3(ret.fit, @, [args.o3 EXCEPT !.wins = won]),
                    !.best_error = IF won THEN args.o3.error ELSE @,
                    !.pc = IF ~ret.fit.colours.transparent THEN "compress4" ELSE "copy"]
    /\ UNCHANGED <<op, args>>

\* `if !self.is_transparent() { self.compress4(); }` after compress3, and
\* `else { self.compress4(); }` of the other formats
ColourFitCompress4 ==
    /\ op = "colourfit_compress"
    /\ \/ ret.pc = "compress4"
       \/ ret.pc = "entered" /\ ret.fit.format # "Bc1"
    /\ \E won \in {beats(args.o4.error, ret.best_error)} :
          ret' = [ret EXCEPT
                    !.calls = Append(@, "compress4"),
                    !.best_compressed = compress4(ret.fit, @, [args.o4 EXCEPT !.wins = won]),
                    !.best_error = IF won THEN args.o4.error ELSE @,
                    !.pc = "copy"]
    /\ UNCHANGED <<op, args>>

\* block.copy_from_slice(self.best_compressed())
ColourFitCopy ==
    /\ op = "colourfit_compress"
    /\ ret.pc = "copy"
    /\ ret' = [ret EXCEPT !.block = ret.best_compressed, !.pc = "returned"]
    /\ UNCHANGED <<op, args>>

\* ClusterFit::compress3 or compress4 is entered on the fitter
\* ClusterFit::new made for a point set of two or more colours: compress3
\* for BC1, compress4 after it when the set is not transparent (best_error
\* is then the one compress3 saved), compress4 alone for the other formats
ClusterFitCompress ==
    \E block \in 1..Len(ClusterBlocks), mask \in ClusterMasks, format \in {"Bc1", "Bc3"},
       iterate \in BOOLEAN, call \in {"compress3", "compress4"},
       settled \in 1..Len(Axes), ties \in {"up", "down"}, seed \in 0..MaxClusterSeed :
        \E colours \in {ColourSet_new(ClusterBlocks[block], mask, format, FALSE)} :
            /\ Idle
            /\ colours.count >= 2
            /\ call = "compress3" => format = "Bc1"
            /\ (call = "compress4" /\ format = "Bc1") => ~colours.transparent
            /\ op' = "cluster_compress"
            /\ args' = [rgba |-> ClusterBlocks[block], mask |-> mask, format |-> format,
                        iterate |-> iterate, call |-> call, ties |-> ties, seed |-> seed]
            /\ ret' = [colours |-> colours,
                       num_iterations |-> IF iterate THEN MAX_ITERATIONS ELSE 1,
                       principle |-> principle_component(colours, Axes[settled]),
                       order |-> [n \in 0..(MAX_ITERATIONS - 1) |-> [m \in 0..15 |-> 0]],
                       points_weights |-> [i \in 0..(colours.count - 1) |-> -1],
                       xsum_wsum |-> [p \in 0..(colours.count - 1) |-> 0],
                       self_best_error |-> IF call = "compress4" /\ format = "Bc1"
                                           THEN 20 ELSE best_error_MAX,
                       best_error |-> IF call = "compress4" /\ format = "Bc1"
                                      THEN 20 ELSE best_error_MAX,
                       best_start |-> << <<0, 31>>, <<0, 63>>, <<0, 31>> >>,
                       best_end |-> << <<0, 31>>, <<0, 63>>, <<0, 31>> >>,
                       best_iteration |-> 0,
                       axis |-> principle_component(colours, Axes[settled]),
                       iteration_index |-> 0,
                       passes |-> <<>>,
                       pc |-> "loop"]

\* one pass of `for iteration_index in 0..self.num_iterations`: the ordering
\* has been seen (break), or the search over the clusters runs and finds an
\* error below best_error or not (`lower`; it does against f32::MAX: the
\* candidate i = 0, j = 1 has a finite error), then `if best_iteration !=
\* iteration_index { break; }` and the new axis
ClusterFitIteration(c) ==
    LET n == ret.iteration_index
    IN  IF ~c.unique
        THEN ret' = [ret EXCEPT
                        !.order[n] = c.order,
                        !.passes = Append(@, [axis |-> ret.axis, unique |-> FALSE,
                                              lower |-> FALSE]),
                        !.pc = "save"]
        ELSE \E lower \in {b \in BOOLEAN : ret.best_error = best_error_MAX => b} :
                \E best_iteration \in {IF lower THEN n ELSE ret.best_iteration} :
                    ret' = [ret EXCEPT
                        !.order[n] = c.order,
                        !.points_weights = c.points_weights,
                        !.xsum_wsum = c.xsum_wsum,
                        !.passes = Append(@, [axis |-> ret.axis, unique |-> TRUE,
                                              lower |-> lower]),
                        !.best_error = IF ~lower THEN @
                                       ELSE IF @ = best_error_MAX THEN 19 ELSE @ - 1,
                        !.best_start = IF lower THEN ClusterPairOf(args.seed, n).start ELSE @,
                        !.best_end = IF lower THEN ClusterPairOf(args.seed, n).end ELSE @,
                        !.best_iteration = best_iteration,
                        !.axis = IF best_iteration # n THEN @
                                 ELSE IF lower
                                 THEN axis_between(ClusterPairOf(args.seed, n).start,
                                                   ClusterPairOf(args.seed, n).end)
                                 ELSE axis_between(ret.best_start, ret.best_end),
                        !.iteration_index = IF best_iteration # n THEN @ ELSE n + 1,
                        !.pc = IF best_iteration # n \/ n + 1 = ret.num_iterations
                               THEN "save" ELSE "loop"]

ClusterFitIterate ==
    /\ op = "cluster_compress"
    /\ ret.pc = "loop"
    /\ \E sorted \in {construct_ordering_sort(ret.colours, ret.axis, args.ties)} :
          \E c \in {construct_ordering(ret.colours, ret.iteration_index, ret.order, sorted)} :
              ClusterFitIteration(c)
    /\ UNCHANGED <<op, args>>

\* "save the block if necessary": the block is emitted from
\* self.order[best_iteration] when best_error beats self.best_error
ClusterFitSave ==
    /\ op = "cluster_compress"
    /\ ret.pc = "save"
    /\ ret' = [ret EXCEPT
                  !.self_best_error = IF beats(ret.best_error, @) THEN ret.best_error ELSE @,
                  !.pc = IF beats(ret.best_error, ret.self_best_error)
                         THEN "saved" ELSE "kept"]
    /\ UNCHANGED <<op, args>>

\* alpha::compress_bc2(rgba, mask, block)
CompressBc2 ==
    \E seed \in 0..MaxValueSeed, step \in ValueSteps, mask \in AlphaMasks :
        LET rgba == ValueTile(3, seed, step)
        IN  /\ Idle
            /\ op' = "compress_bc2"
            /\ args' = [rgba |-> rgba, mask |-> mask]
            /\ ret' = compress_bc2(rgba, mask)

\* the colour sub-block of a fitter whose arithmetic settles as o
fitted_colour(fit, o) == ColourFit_compress(fit, o.o3, o.o4)

\* the alpha and colour sub-blocks at their offsets in the block
joined_block(format, out, colour) ==
    [k \in 0..(block_size(format) - 1) |->
        IF k \in DOMAIN out.alpha THEN out.alpha[k] ELSE colour[k - out.colour_offset]]

\* the bytes of the block from what compress_block_masked produced
stored_block(format, out, seed) ==
    IF "colour" \in DOMAIN out
    THEN joined_block(format, out, fitted_colour(out.colour, NumericsOf(out.colour, seed)))
    ELSE out.alpha

\* the block_size bytes Format::compress_block_masked writes when the
\* arithmetic of its colour fitter settles as NumericsOf(fit, seed)
compressed_block(format, rgba, mask, params, seed) ==
    stored_block(format, compress_block_masked(format, rgba, mask, params), seed)

\* a block of sixteen identical texels
UniformBlock(seed) ==
    [i \in 0..15 |-> Texel((255 - 5 * seed) % 256, (37 * seed) % 256,
                           (101 * seed) % 256, (5 * seed) % 256)]

\* compress_block_masked, decompress_block, compress_block_masked again on a
\* uniform block with every texel valid, one call per step: the first
\* compress_block_masked
ReencodeCompress ==
    \E format \in Format, seed \in 0..MaxUniformSeed :
        \E n \in (IF format \in {"Bc4", "Bc5"} THEN {0} ELSE 0..MaxReencodeSeed) :
            LET rgba == UniformBlock(seed)
            IN  /\ Idle
                /\ op' = "reencode_compress"
                /\ args' = [format |-> format, rgba |-> rgba, mask |-> 65535,
                            params |-> Params_default]
                /\ ret' = [first |-> compressed_block(format, rgba, 65535, Params_default, n)]

\* decompress_block on the bytes of the first compress
ReencodeDecompress ==
    /\ op = "reencode_compress"
    /\ op' = "reencode_decompress"
    /\ ret' = [first |-> ret.first, decoded |-> decompress_block(args.format, ret.first)]
    /\ UNCHANGED args

\* compress_block_masked on the decoded block
Reencode ==
    /\ op = "reencode_decompress"
    /\ \E n \in (IF args.format \in {"Bc4", "Bc5"} THEN {0} ELSE 0..MaxReencodeSeed) :
        /\ op' = "reencode"
        /\ ret' = [first |-> ret.first, decoded |-> ret.decoded,
                   second |-> compressed_block(args.format, ret.decoded, args.mask,
                                               args.params, n)]
        /\ UNCHANGED args

\* Format::decompress with the rayon feature: par_chunks_mut hands one row
\* chunk of the output to each row task; pc[y] is the block row task y is at
ParDecompress ==
    \E format \in Format, width \in 1..MaxTileWidth, height \in 1..MaxTileHeight,
       fill \in {0, 170} :
        LET data == ImageData(format, width, height, 1)
            output == [g \in 0..(4 * width * height - 1) |-> fill]
            rows == chunks_count(4 * width * height, width * 4 * 4)
        IN  /\ Idle
            /\ op' = "par_decompress"
            /\ args' = [format |-> format, data |-> data, width |-> width,
                        height |-> height, output |-> output]
            /\ ret' = [pc |-> [y \in 0..(rows - 1) |-> 0], output |-> output]

\* a row task of decompress takes its next block; a task that panicked is at -1
DecompressRowTask ==
    /\ op = "par_decompress"
    /\ \E y \in DOMAIN ret.pc :
        /\ ret.pc[y] >= 0
        /\ ret.pc[y] < num_blocks(args.width)
        /\ \E step \in {decompress_row_block(args.format, args.data, args.width,
                                               args.height, ret.output, y, ret.pc[y])} :
               ret' = [pc |-> [ret.pc EXCEPT ![y] = IF step.panicked THEN -1 ELSE @ + 1],
                       output |-> step.output]
    /\ UNCHANGED <<op, args>>

\* Format::compress with the rayon feature, on an output of compressed_size
\* bytes: one row task per row chunk, each with its source_rgba; row task y
\* is at block pc[y] \div 2, before the copy of its pixels (even) or before
\* the call of compress_block_masked (odd); output[b] is <<>> until block
\* chunk b is written and then holds what compress_block_masked stored
ParCompress ==
    \E format \in Format, width \in 1..MaxTileWidth, height \in 1..MaxTileHeight,
       seed \in 0..MaxImageSeed :
        LET rgba == ImagePixels(width, height, seed)
            rows == num_blocks(height)
        IN  /\ Idle
            /\ op' = "par_compress"
            /\ args' = [format |-> format, rgba |-> rgba, width |-> width,
                        height |-> height, params |-> Params_default,
                        out_len |-> compressed_size(format, width, height)]
            /\ ret' = [pc |-> [y \in 0..(rows - 1) |-> 0],
                       source_rgba |-> [y \in 0..(rows - 1) |->
                                           [index \in 0..15 |-> Texel(0, 0, 0, 0)]],
                       output |-> [b \in 0..(rows * num_blocks(width) - 1) |-> <<>>]]

\* a row task of compress builds the 4x4 block of its next block chunk
CompressRowCopy ==
    /\ op = "par_compress"
    /\ \E y \in DOMAIN ret.pc :
        /\ ret.pc[y] < 2 * num_blocks(args.width)
        /\ ret.pc[y] % 2 = 0
        /\ LET slot == source_slot(y)
               block == copy_pixels(args.rgba, args.width, args.height,
                                    ret.source_rgba[slot], y, ret.pc[y] \div 2)
           IN  ret' = [ret EXCEPT !.pc[y] = @ + 1, !.source_rgba[slot] = block]
    /\ UNCHANGED <<op, args>>

\* a row task of compress calls compress_block_masked on the block it built
CompressRowCall ==
    /\ op = "par_compress"
    /\ \E y \in DOMAIN ret.pc :
        /\ ret.pc[y] % 2 = 1
        /\ \E step \in {compress_row_block(args.format, args.width, args.height, args.params,
                                             ret.source_rgba[source_slot(y)], y,
                                             ret.pc[y] \div 2)} :
               ret' = [ret EXCEPT !.pc[y] = @ + 1, !.output[step.at] = <<step.block>>]
    /\ UNCHANGED <<op, args>>

\* ColourSet::new(rgba, mask, format, alpha_weighted), then
\* ColourSet::remap_indices(source, target) on the set
ColourSetNew ==
    \E format \in Format, seed \in 0..MaxSetSeed, mask \in MaskPool,
       alpha_weighted \in BOOLEAN, source \in SetSources :
        \E set \in {ColourSet_new(SetBlockOf(seed), mask, format, alpha_weighted)} :
            /\ Idle
            /\ op' = "colourset_new"
            /\ args' = [rgba |-> SetBlockOf(seed), mask |-> mask, format |-> format,
                        alpha_weighted |-> alpha_weighted, source |-> source]
            /\ ret' = [set |-> set, target |-> remap_indices(set, source)]

\* alpha::write_alpha_block5 (points = 5) and alpha::write_alpha_block7
\* (points = 7) on the indices a fit stores
WriteAlphaBlock ==
    \E alpha0 \in AlphaEndpoints, alpha1 \in AlphaEndpoints, seed \in 0..MaxIndexSeed,
       points \in {5, 7} :
        /\ Idle
        /\ op' = "write_alpha_block"
        /\ args' = [alpha0 |-> alpha0, alpha1 |-> alpha1, indices |-> AlphaIndices(seed),
                    points |-> points]
        /\ ret' = IF points = 5
                  THEN write_alpha_block5(alpha0, alpha1, AlphaIndices(seed))
                  ELSE write_alpha_block7(alpha0, alpha1, AlphaIndices(seed))

\* alpha::compress_bc3(rgba, channel, mask, block); ret keeps the ranges, the
\* codebooks and the fits of the call next to the bytes stored
CompressBc3 ==
    \E channel \in {0, 3}, seed \in 0..MaxBc3Seed, mask \in Bc3Masks :
        LET rgba == Bc3Tile(channel, seed)
        IN  /\ Idle
            /\ op' = "compress_bc3"
            /\ args' = [rgba |-> rgba, channel |-> channel, mask |-> mask]
            /\ ret' = [block |-> compress_bc3(rgba, channel, mask),
                       candidates |-> bc3_candidates(rgba, channel, mask)]

NextSize ==
    \/ CompressedSize

NextDecode ==
    \/ DecompressBlock
    \/ ColourblockDecompress

NextWrite ==
    \/ Write3
    \/ Write4

NextImage ==
    \/ Decompress
    \/ Compress

NextEncode ==
    \/ CompressBlockMasked

NextFit ==
    \/ CompressColour

NextAlpha ==
    \/ CompressBc2
    \/ CompressBc3
    \/ WriteAlphaBlock

NextColourSet ==
    \/ ColourSetNew

NextReencode ==
    \/ ReencodeCompress
    \/ ReencodeDecompress
    \/ Reencode

NextPolicy ==
    \/ ColourFitCompress
    \/ ColourFitCompress3
    \/ ColourFitCompress4
    \/ ColourFitCopy

NextCluster ==
    \/ ClusterFitCompress
    \/ ClusterFitIterate
    \/ ClusterFitSave

NextTiling ==
    \/ ParDecompress
    \/ DecompressRowTask
    \/ ParCompress
    \/ CompressRowCopy
    \/ CompressRowCall

Next ==
    \/ CompressedSize
    \/ DecompressBlock
    \/ ColourblockDecompress
    \/ Write3
    \/ Write4
    \/ Decompress
    \/ Compress
    \/ CompressBlockMasked
    \/ CompressColour
    \/ CompressBc2
    \/ CompressBc3
    \/ WriteAlphaBlock
    \/ ColourSetNew
    \/ ColourFitCompress
    \/ ColourFitCompress3
    \/ ColourFitCompress4
    \/ ColourFitCopy
    \/ ClusterFitCompress
    \/ ClusterFitIterate
    \/ ClusterFitSave
    \/ ReencodeCompress
    \/ ReencodeDecompress
    \/ Reencode
    \/ ParDecompress
    \/ DecompressRowTask
    \/ ParCompress
    \/ CompressRowCopy
    \/ CompressRowCall

Spec == Init /\ [][Next]_vars

\* the size functions alone
SpecSize == Init /\ [][NextSize]_vars

\* the block decoders alone
SpecDecode == Init /\ [][NextDecode]_vars

\* the colour sub-block serialisers alone
SpecWrite == Init /\ [][NextWrite]_vars

\* the image-level functions alone
SpecImage == Init /\ [][NextImage]_vars

\* the calls ColourFit::compress makes, one step per call
SpecPolicy == Init /\ [][NextPolicy]_vars

\* the ordering iterations of ClusterFit::compress3 and compress4
SpecCluster == Init /\ [][NextCluster]_vars

\* the block encoder alone
SpecEncode == Init /\ [][NextEncode]_vars

\* the colour fitters alone
SpecFit == Init /\ [][NextFit]_vars

\* the alpha encoders alone
SpecAlpha == Init /\ [][NextAlpha]_vars

\* the colour point set alone
SpecColourSet == Init /\ [][NextColourSet]_vars

\* the round trip through the block decoder alone
SpecReencode == Init /\ [][NextReencode]_vars

\* the row tasks of the parallel mode alone
SpecTiling == Init /\ [][NextTiling]_vars

----------------------------------------------------------------------------
(* Reference definitions the claims are stated with *)

\* ceil(n / 4): the least k with 4k >= n
CeilDiv4(n) == CHOOSE k \in 0..n : 4 * k >= n /\ 4 * (k - 1) < n

\* the value texel t selects in an 8-byte alpha-style sub-block (BC3/4/5):
\* endpoints a0, a1, then sixteen 3-bit indices, eight per group of 3 bytes
AlphaValueAt(bytes, t) ==
    LET a0 == bytes[0]
        a1 == bytes[1]
        g == t \div 8
        v24 == bytes[2 + 3 * g] + 256 * bytes[3 + 3 * g] + 65536 * bytes[4 + 3 * g]
        k == (v24 \div (8 ^ (t % 8))) % 8
    IN  CASE k = 0 -> a0
          [] k = 1 -> a1
          [] k >= 2 /\ a0 > a1 -> ((8 - k) * a0 + (k - 1) * a1) \div 7
          [] k \in 2..5 /\ a0 <= a1 -> ((6 - k) * a0 + (k - 1) * a1) \div 5
          [] k = 6 /\ a0 <= a1 -> 0
          [] k = 7 /\ a0 <= a1 -> 255

\* the bit-replicated 8-bit expansion of a 5-6-5 endpoint, as R, G, B
Expand565(e) ==
    LET r5 == e \div 2048
        g6 == (e \div 32) % 64
        b5 == e % 32
    IN  <<8 * r5 + r5 \div 4, 4 * g6 + g6 \div 16, 8 * b5 + b5 \div 4>>

\* the palette of a colour sub-block with endpoints a, b, as RGBA tuples
Palette3(a, b) ==
    LET A == Expand565(a)
        B == Expand565(b)
    IN  [k \in 0..3 |->
            CASE k = 0 -> Texel(A[1], A[2], A[3], 255)
              [] k = 1 -> Texel(B[1], B[2], B[3], 255)
              [] k = 2 -> Texel((A[1] + B[1]) \div 2, (A[2] + B[2]) \div 2,
                                (A[3] + B[3]) \div 2, 255)
              [] k = 3 -> Texel(0, 0, 0, 0)]

Palette4(a, b) ==
    LET A == Expand565(a)
        B == Expand565(b)
    IN  [k \in 0..3 |->
            CASE k = 0 -> Texel(A[1], A[2], A[3], 255)
              [] k = 1 -> Texel(B[1], B[2], B[3], 255)
              [] k = 2 -> Texel((2 * A[1] + B[1]) \div 3, (2 * A[2] + B[2]) \div 3,
                                (2 * A[3] + B[3]) \div 3, 255)
              [] k = 3 -> Texel((A[1] + 2 * B[1]) \div 3, (A[2] + 2 * B[2]) \div 3,
                                (A[3] + 2 * B[3]) \div 3, 255)]

\* the 2-bit index of texel t in a colour sub-block
IndexAt(bytes, t) == (bytes[4 + t \div 4] \div (4 ^ (t % 4))) % 4

----------------------------------------------------------------------------
(* Claims *)

\* C1: image-level decompress, for every format and all width, height >= 1
\* with len(data) = compressed_size(width, height) and len(output) =
\* 4*width*height: it completes without aborting, and every output pixel
\* (sx, sy) inside the image equals texel (sx mod 4, sy mod 4) of the decoded
\* block (sx div 4, sy div 4); texels outside the image are never indexed
\* into the output.
C1_DecompressClipped ==
    op = "decompress" =>
        /\ ~ret.aborted
        /\ \A sx \in 0..(args.width - 1), sy \in 0..(args.height - 1), i \in 0..3 :
              LET bs == IF args.format \in {"Bc1", "Bc4"} THEN 8 ELSE 16
                  b == (sx \div 4) + (sy \div 4) * CeilDiv4(args.width)
                  block == [k \in 0..(bs - 1) |-> args.data[bs * b + k]]
              IN  ret.output[4 * (sy * args.width + sx) + i]
                    = decompress_block(args.format, block)[(sx % 4) + 4 * (sy % 4)][i]

\* C2: BC2 alpha decode: for each of the 8 alpha bytes, texel 2i gets the low
\* nibble n expanded to n | (n << 4) and texel 2i+1 the high nibble m (0..15)
\* expanded to m | (m << 4), so every decoded alpha is a multiple of 0x11 and
\* the block 10 32 54 76 98 BA DC FE decodes to the ramp 0x00, 0x11, ..., 0xFF.
C2_Bc2NibbleExpansion ==
    (op = "decompress_block" /\ args.format = "Bc2") =>
        /\ \A i \in 0..7 :
              LET n == args.block[i] % 16
                  m == args.block[i] \div 16
              IN  /\ ret[2 * i][3] = 17 * n
                  /\ ret[2 * i + 1][3] = 17 * m
        /\ (Slice(args.block, 0, 8) = BC2_alpha_encoded =>
                \A t \in 0..15 : ret[t][3] = LINEAR_RAMP[t])

\* C3: decompress_block for BC4: for every 8-byte block and every texel i, the
\* returned texel has R = G = B = the value decoded from the alpha sub-block
\* for texel i, and A = 255.
C3_Bc4Splat ==
    (op = "decompress_block" /\ args.format = "Bc4") =>
        \A t \in 0..15 :
            LET v == AlphaValueAt(args.block, t)
            IN  ret[t] = Texel(v, v, v, 255)

\* C4: for every format and all width, height >= 1, compressed_size(width,
\* height) = ceil(width/4) * ceil(height/4) * block_size, with block_size 8 for
\* BC1 and BC4 and 16 for BC2, BC3 and BC5.
C4_CompressedSize ==
    op = "compressed_size" =>
        ret = CeilDiv4(args.width) * CeilDiv4(args.height)
                * (IF args.format \in {"Bc1", "Bc4"} THEN 8 ELSE 16)

\* C4 witness: a 15-wide image needs the space of a 16-wide one (15x32 BC1: 256)
C4_Witness ==
    /\ op = "compressed_size"
    /\ args = [format |-> "Bc1", width |-> 15, height |-> 32]
    /\ ret = 256
    /\ ret = compressed_size("Bc1", 16, 32)

\* C5: masked encoding is non-interfering: for every format, params and mask,
\* two blocks that agree on every texel whose mask bit is set get the same
\* output from compress_block_masked (the same alpha bytes, and the same
\* fitter run on the same colour set, hence the same colour bytes); the
\* texels whose mask bit is clear may hold anything
C5_MaskedNonInterference ==
    (/\ op = "compress_block_masked"
     /\ \A i \in 0..15 : BitSet(args.mask, i) => args.rgba[i] = args.other[i])
        => ret.block = ret.other

\* C5 witness: a BC3 block with its right column masked out and a second one
\* that differs there, holding in a masked-out texel the colour of a later
\* valid texel (the duplicate scan of ColourSet::new passes over it); several
\* colours remain and both calls return the same
C5_Witness ==
    /\ op = "compress_block_masked"
    /\ args.format = "Bc3"
    /\ args.mask = 30583
    /\ \A i \in 0..15 : BitSet(args.mask, i) => args.rgba[i] = args.other[i]
    /\ \E j \in 0..15 : args.rgba[j] # args.other[j]
    /\ \E j \in 0..15, i \in 0..15 :
          /\ j < i
          /\ ~BitSet(args.mask, j)
          /\ BitSet(args.mask, i)
          /\ args.rgba[j] # args.other[j]
          /\ Slice(args.other[j], 0, 3) = Slice(args.other[i], 0, 3)
    /\ ret.block.colour.colours.count >= 2
    /\ ret.block = ret.other

\* C6: image-level compress, for w, h >= 1 and len(rgba) = 4*w*h: it aborts
\* when len(output) < compressed_size(w, h), and for every output buffer with
\* len(output) >= compressed_size(w, h) it completes without aborting.
C6_CompressAbort ==
    op = "compress" =>
        LET size == CeilDiv4(args.width) * CeilDiv4(args.height)
                        * (IF args.format \in {"Bc1", "Bc4"} THEN 8 ELSE 16)
        IN  /\ args.out_len < size => ret.aborted
            /\ args.out_len >= size => ~ret.aborted

\* C7: in image-level compress, the block at block coordinates (x, y),
\* x < blocks_wide and y < blocks_high, writes exactly the output bytes
\* [block_size*(y*blocks_wide + x), block_size*(y*blocks_wide + x + 1)) and no
\* others, and its input tile has texel 4*py+px = source pixel (4x+px, 4y+py)
\* with mask bit 4*py+px set if and only if that pixel lies inside the image.
C7_BlockFrame ==
    (op = "compress" /\ ~ret.asserted) =>
        LET bw == CeilDiv4(args.width)
            bh == CeilDiv4(args.height)
            bs == IF args.format \in {"Bc1", "Bc4"} THEN 8 ELSE 16
        IN  /\ \A x \in 0..(bw - 1), y \in 0..(bh - 1) :
                  Cardinality({k \in DOMAIN ret.calls :
                                    ret.calls[k].x = x /\ ret.calls[k].y = y}) = 1
            /\ \A k \in DOMAIN ret.calls :
                  LET c == ret.calls[k]
                  IN  (c.x < bw /\ c.y < bh) =>
                        /\ c.written = (bs * (c.y * bw + c.x))..(bs * (c.y * bw + c.x + 1) - 1)
                        /\ \A px \in 0..3, py \in 0..3 :
                              LET inside == 4 * c.x + px < args.width /\ 4 * c.y + py < args.height
                                  at == 4 * (args.width * (4 * c.y + py) + (4 * c.x + px))
                              IN  /\ ((c.mask \div (2 ^ (4 * py + px))) % 2 = 1) <=> inside
                                  /\ inside =>
                                        \A i \in 0..3 : c.rgba[4 * py + px][i] = args.rgba[at + i]

\* C7 witness: a 5x6 image in an exactly sized buffer: the last of its four
\* blocks holds pixels (4, 4) and (4, 5) only (mask bits 0 and 4) and writes
\* the last block_size bytes
C7_Witness ==
    /\ op = "compress"
    /\ args.width = 5 /\ args.height = 6 /\ args.format = "Bc3"
    /\ args.out_len = 64
    /\ ~ret.aborted
    /\ Len(ret.calls) = 4
    /\ ret.calls[4].x = 1 /\ ret.calls[4].y = 1
    /\ ret.calls[4].mask = 17
    /\ ret.calls[4].written = 48..63
    /\ ret.calls[2].rgba[1] = ret.calls[1].rgba[1]

\* C8: colour sub-block decode: with a, b the little-endian u16 endpoints, if
\* is_bc1 and a <= b the palette is {A, B, (A+B)/2, (0,0,0,0)}; in every other
\* case it is {A, B, (2A+B)/3, (A+2B)/3} and every decoded texel has alpha 255;
\* A and B are the bit-replicated 5-6-5 expansions.
C8_ColourPalette ==
    op = "colourblock_decompress" =>
        LET a == args.bytes[0] + 256 * args.bytes[1]
            b == args.bytes[2] + 256 * args.bytes[3]
        IN  IF args.is_bc1 /\ a <= b
            THEN \A t \in 0..15 : ret[t] = Palette3(a, b)[IndexAt(args.bytes, t)]
            ELSE \A t \in 0..15 :
                    /\ ret[t] = Palette4(a, b)[IndexAt(args.bytes, t)]
                    /\ ret[t][3] = 255

\* C8 witness: a BC1 block with a < b in which some texel has index 3 and decodes
\* to transparent black while another texel decodes to the midpoint colour
C8_Witness ==
    /\ op = "colourblock_decompress"
    /\ args.is_bc1
    /\ read_u16(Slice(args.bytes, 0, 2)) < read_u16(Slice(args.bytes, 2, 2))
    /\ \E t \in 0..15 : IndexAt(args.bytes, t) = 3 /\ ret[t] = Texel(0, 0, 0, 0)
    /\ \E t \in 0..15 : IndexAt(args.bytes, t) = 2 /\ ret[t][3] = 255 /\ ret[t][1] > 0

\* C9: decompress_block for BC5: for every 16-byte block and every texel, R is
\* the value decoded from the first alpha sub-block (bytes 0..8), G the value
\* decoded from the second (bytes 8..16), B = 0 and A = 255.
C9_Bc5Channels ==
    (op = "decompress_block" /\ args.format = "Bc5") =>
        \A t \in 0..15 :
            ret[t] = Texel(AlphaValueAt(Slice(args.block, 0, 8), t),
                           AlphaValueAt(Slice(args.block, 8, 8), t), 0, 255)

\* C9 witness: the BC5 test block decodes with R and G from different sub-blocks
C9_Witness ==
    /\ op = "decompress_block"
    /\ args.format = "Bc5"
    /\ args.block = Concat(BC4_GRAY_encoded, 8, BC5_GRAY_alpha1_encoded, 8)
    /\ ret[0] = Texel(255, 0, 0, 255)
    /\ ret[1] = Texel(0, 255, 0, 255)
    /\ ret[5] = Texel(127, 127, 0, 255)

\* C10: endpoint-ordering law: for all start, end and indices the block
\* written by write3 has endpoint_a <= endpoint_b, and the block written by
\* write4 has endpoint_a > endpoint_b, or endpoint_a = endpoint_b with all
\* sixteen indices equal to 0.
C10_EndpointOrdering ==
    LET a == ret[0] + 256 * ret[1]
        b == ret[2] + 256 * ret[3]
    IN  /\ op = "write3" => a <= b
        /\ op = "write4" => \/ a > b
                            \/ a = b /\ \A t \in 0..15 : IndexAt(ret, t) = 0

\* C10 witness: write4 of two different colours that pack to one endpoint,
\* given non-zero indices, writes all-zero indices
C10_Witness ==
    /\ op = "write4"
    /\ args.start # args.end
    /\ \E t \in 0..15 : args.indices[t] # 0
    /\ ret[0] + 256 * ret[1] = ret[2] + 256 * ret[3]
    /\ ret[0] + 256 * ret[1] > 0
    /\ \A k \in 4..7 : ret[k] = 0

\* the decoder takes the three-colour palette with transparent black at
\* index 3 (colourblock::decompress: is_bc1 && a <= b)
ThreeColourMode(format, bytes) ==
    format = "Bc1" /\ read_u16(Slice(bytes, 0, 2)) <= read_u16(Slice(bytes, 2, 2))

\* C11 as stated: the colour sub-block compress_block_masked produces is in
\* the three-colour mode (index 3 is transparent black) if and only if the
\* format is BC1 and at least one input texel has alpha < 128
C11_TransparentIff ==
    op = "compress_colour" =>
        (ThreeColourMode(args.format, ret.block)
            <=> (args.format = "Bc1" /\ \E i \in 0..15 : args.rgba[i][3] < 128))

\* C11 amended: a BC1 block with a valid (mask bit set) texel of alpha < 128
\* is written in the three-colour mode, and every such texel gets index 3 and
\* decodes to transparent black; a BC2 or BC3 colour sub-block never decodes
\* with the three-colour palette (every decoded alpha is 255).  An opaque BC1
\* block may be written in either mode
C11_TransparentImplies ==
    op = "compress_colour" =>
        LET decoded == colourblock_decompress(ret.block, args.format = "Bc1")
            punched == {i \in 0..15 : BitSet(args.mask, i) /\ args.rgba[i][3] < 128}
        IN  /\ (args.format = "Bc1" /\ punched # {}) =>
                  /\ ThreeColourMode(args.format, ret.block)
                  /\ \A i \in punched : /\ IndexAt(ret.block, i) = 3
                                        /\ decoded[i] = Texel(0, 0, 0, 0)
            /\ args.format # "Bc1" => \A i \in 0..15 : decoded[i][3] = 255

\* C11 witness: a BC1 block of two opaque colours and one valid transparent
\* texel, fitted by ClusterFit, comes out in three-colour mode with index 3
\* at that texel
C11_Witness ==
    /\ op = "compress_colour"
    /\ args.format = "Bc1"
    /\ args.mask = 65535
    /\ args.rgba[5][3] < 128
    /\ ret.fit.fit = "ClusterFit"
    /\ ret.fit.colours.count = 2
    /\ ThreeColourMode(args.format, ret.block)
    /\ IndexAt(ret.block, 5) = 3
    /\ \E i \in 0..15 : IndexAt(ret.block, i) # 3

\* C12: decoding is total: for every format and every block of exactly
\* block_size bytes, decompress_block reaches no abort (no slice, palette or
\* codebook index out of range, no arithmetic overflow) and returns 16 texels
\* of 4 bytes each, the value the decoder computes from the format and the
\* bytes alone
C12_DecodeTotal ==
    op = "decompress_block" =>
        /\ Cardinality(DOMAIN args.block) = block_size(args.format)
        /\ ~decompress_block_panics(args.format, args.block)
        /\ DOMAIN ret = 0..15
        /\ \A t \in 0..15 : /\ DOMAIN ret[t] = 0..3
                            /\ \A c \in 0..3 : ret[t][c] \in 0..255
        /\ ret = decompress_block(args.format, args.block)

\* C12 witness: a BC3 block whose alpha bytes are all 0xFF (every 3-bit index
\* is 7) and whose colour indices include 3 decodes to 16 texels
C12_Witness ==
    /\ op = "decompress_block"
    /\ args.format = "Bc3"
    /\ \A k \in 0..7 : args.block[k] = 255
    /\ \E t \in 0..15 : colourblock_indices(Slice(args.block, 8, 8))[t] = 3
    /\ \A t \in 0..15 : bc3_indices(Slice(args.block, 0, 8))[t] = 7
    /\ \A t \in 0..15 : ret[t][3] = 255

\* the bytes of the output slice after compress_block_masked, for a colour
\* sub-block `colour` stored by the fitter
BlockBytes(format, out, colour) ==
    [k \in 0..(block_size(format) - 1) |->
        IF k \in DOMAIN out.alpha THEN out.alpha[k] ELSE colour[k - out.colour_offset]]

\* C13: block byte layout of compress_block_masked: BC1 writes only the 8-byte
\* colour sub-block; BC2 and BC3 write the alpha sub-block of channel 3 in
\* bytes 0..8 and the colour sub-block in bytes 8..16; BC4 writes the
\* sub-block of channel 0 in bytes 0..8 and no colour sub-block; BC5 writes
\* the sub-block of channel 0 in bytes 0..8 and of channel 1 in bytes 8..16;
\* exactly block_size bytes are written, and decompress_block reads the
\* sub-blocks from the same offsets
C13_BlockLayout ==
    op = "compress_block_masked" =>
        LET format == args.format
            out == ret.block
            has_colour == "colour" \in DOMAIN out
            written == (DOMAIN out.alpha)
                          \cup (IF has_colour THEN out.colour_offset..(out.colour_offset + 7) ELSE {})
            blank == [t \in 0..15 |-> Texel(0, 0, 0, 255)]
        IN  /\ CASE format = "Bc1" -> /\ DOMAIN out.alpha = {}
                                       /\ has_colour /\ out.colour_offset = 0
                 [] format = "Bc2" -> /\ DOMAIN out.alpha = 0..7
                                       /\ out.alpha = compress_bc2(args.rgba, args.mask)
                                       /\ has_colour /\ out.colour_offset = 8
                 [] format = "Bc3" -> /\ DOMAIN out.alpha = 0..7
                                       /\ out.alpha = compress_bc3(args.rgba, 3, args.mask)
                                       /\ has_colour /\ out.colour_offset = 8
                 [] format = "Bc4" -> /\ DOMAIN out.alpha = 0..7
                                       /\ out.alpha = compress_bc3(args.rgba, 0, args.mask)
                                       /\ ~has_colour
                 [] format = "Bc5" -> /\ DOMAIN out.alpha = 0..15
                                       /\ Slice(out.alpha, 0, 8) = compress_bc3(args.rgba, 0, args.mask)
                                       /\ Slice(out.alpha, 8, 8) = compress_bc3(args.rgba, 1, args.mask)
                                       /\ ~has_colour
            /\ written = 0..(block_size(format) - 1)
            /\ has_colour => DOMAIN out.alpha \cap (out.colour_offset..(out.colour_offset + 7)) = {}
            /\ \A colour \in {BC1_GRAY_encoded, BC1_COLOUR_encoded} :
                  LET decoded == decompress_block(format, BlockBytes(format, out, colour))
                  IN  /\ has_colour =>
                            \A t \in 0..15, c \in 0..2 :
                                decoded[t][c] = colourblock_decompress(colour, format = "Bc1")[t][c]
                      /\ format = "Bc2" =>
                            \A t \in 0..15 : decoded[t][3] = decompress_bc2(blank, out.alpha)[t][3]
                      /\ format = "Bc3" =>
                            \A t \in 0..15 : decoded[t][3] = decompress_bc3(blank, 3, out.alpha)[t][3]
                      /\ format \in {"Bc4", "Bc5"} =>
                            \A t \in 0..15 :
                                decoded[t][0] = decompress_bc3(blank, 0, Slice(out.alpha, 0, 8))[t][0]
                      /\ format = "Bc5" =>
                            \A t \in 0..15 :
                                decoded[t][1] = decompress_bc3(blank, 1, Slice(out.alpha, 8, 8))[t][1]

\* C13 witness: a BC5 block with all texels valid whose two channels encode to
\* different sub-blocks, channel 0 first
C13_Witness ==
    /\ op = "compress_block_masked"
    /\ args.format = "Bc5"
    /\ args.mask = 65535
    /\ Slice(ret.block.alpha, 0, 8) = compress_bc3(args.rgba, 0, args.mask)
    /\ Slice(ret.block.alpha, 8, 8) = compress_bc3(args.rgba, 1, args.mask)
    /\ Slice(ret.block.alpha, 0, 8) # Slice(ret.block.alpha, 8, 8)

\* C14: colour fitter selection in compress_block_masked (BC1/BC2/BC3): with a
\* point-set count of 1 the single-colour fitter is used whatever the
\* algorithm; otherwise with algorithm RangeFit or count 0 the range fitter;
\* otherwise the cluster fitter, with iterate = TRUE exactly when the
\* algorithm is IterativeClusterFit; one fitter runs per block and it writes
\* the colour sub-block; the default algorithm is ClusterFit
C14_FitterSelection ==
    /\ Params_default.algorithm = "ClusterFit"
    /\ op = "compress_colour" =>
          LET count == ColourSet_new(args.rgba, args.mask, args.format,
                                     args.params.weigh_colour_by_alpha).count
              algorithm == args.params.algorithm
          IN  /\ ret.fit.colours.count = count
              /\ ret.fit.fit \in {"SingleColourFit", "RangeFit", "ClusterFit"}
              /\ ret.fit.fit = "SingleColourFit" <=> count = 1
              /\ ret.fit.fit = "RangeFit" <=> (count # 1 /\ (algorithm = "RangeFit" \/ count = 0))
              /\ ret.fit.fit = "ClusterFit" <=>
                    (count > 1 /\ algorithm \in {"ClusterFit", "IterativeClusterFit"})
              /\ ret.fit.fit = "ClusterFit" =>
                    (ret.fit.iterate <=> algorithm = "IterativeClusterFit")
              /\ ret.block = ColourFit_compress(ret.fit, args.o3, args.o4)

\* C14 witness: a block of one colour compressed with IterativeClusterFit goes
\* to the single-colour fitter
C14_Witness ==
    /\ op = "compress_colour"
    /\ args.params.algorithm = "IterativeClusterFit"
    /\ args.mask = 65535
    /\ ret.fit.colours.count = 1
    /\ ret.fit.fit = "SingleColourFit"

\* round(alpha * 15 / 255) clamped to [0, 15]: the integer nearest to
\* alpha / 17 (17 is odd: there are no ties)
NearestNibble(alpha) ==
    CHOOSE n \in 0..15 : 2 * (17 * n - alpha) <= 17 /\ 2 * (alpha - 17 * n) <= 17

\* C15: BC2 alpha encode: the 4-bit value of texel i is round(alpha_i * 15 /
\* 255) clamped to [0, 15], or 0 when mask bit i is clear; byte k holds texel
\* 2k in its low nibble and texel 2k + 1 in its high nibble; the alpha ramp
\* 0x00, 0x11, ..., 0xFF with a full mask encodes to 10 32 54 76 98 BA DC FE
C15_Bc2Encode ==
    op = "compress_bc2" =>
        LET quant(i) == IF BitSet(args.mask, i) THEN NearestNibble(args.rgba[i][3]) ELSE 0
        IN  /\ DOMAIN ret = 0..7
            /\ \A k \in 0..7 : ret[k] = quant(2 * k) + 16 * quant(2 * k + 1)
            /\ ((\A i \in 0..15 : args.rgba[i][3] = LINEAR_RAMP[i]) /\ args.mask = 65535)
                  => ret = BC2_alpha_encoded

\* C15 witness: the ramp with a full mask is encoded to the test vector's
\* alpha bytes
C15_Witness ==
    /\ op = "compress_bc2"
    /\ \A i \in 0..15 : args.rgba[i][3] = LINEAR_RAMP[i]
    /\ args.mask = 65535
    /\ ret = Bytes8(16, 50, 84, 118, 152, 186, 220, 254)

\* the bytes of a block outside its colour sub-block
AlphaHalf(format, block) ==
    CASE format = "Bc1" -> <<>>
      [] format \in {"Bc2", "Bc3"} -> Slice(block, 0, 8)
      [] format \in {"Bc4", "Bc5"} -> block

\* C16: idempotence under re-encode: for every format and every uniform block
\* with all texels valid, compress_block_masked, decompress_block and
\* compress_block_masked again give the bytes of the first compress.  The
\* colour sub-block depends on the fitter's arithmetic, so the statement is
\* taken where the two colour sub-blocks agree: there the whole blocks must
\* agree
C16_ReencodeIdempotent ==
    op = "reencode" =>
        LET format == args.format
            colour(block) == IF format \in {"Bc4", "Bc5"} THEN <<>>
                             ELSE Slice(block, block_size(format) - 8, 8)
        IN  colour(ret.second) = colour(ret.first) => ret.second = ret.first

\* C16, the formats whose blocks hold no BC2 alpha: the bytes outside the
\* colour sub-block are the same after re-encoding
C16_OtherFormats ==
    (op = "reencode" /\ args.format # "Bc2") =>
        AlphaHalf(args.format, ret.second) = AlphaHalf(args.format, ret.first)

\* C18: parallel tiling is race-free: in decompress and in compress a row
\* task writes only its own row chunk of the output and shares no state with
\* the other row tasks, so whatever the interleaving of the row tasks each row
\* chunk holds what sequential row-by-row processing stores into it, for the
\* blocks its task has got through; once every row task has finished the
\* output is that of the sequential run
C18_RaceFree ==
    /\ op = "par_decompress" =>
          LET seq == decompress(args.format, args.data, args.width, args.height, args.output)
              row_size == args.width * 4 * 4
          IN  /\ \A g \in DOMAIN ret.output :
                    LET y == g \div row_size
                        x == (((g % row_size) \div 4) % args.width) \div 4
                    IN  ret.output[g] = IF ret.pc[y] = -1 \/ x < ret.pc[y]
                                        THEN seq.output[g] ELSE args.output[g]
              /\ (\A y \in DOMAIN ret.pc : ret.pc[y] = num_blocks(args.width))
                    => (ret.output = seq.output /\ ~seq.aborted)
    /\ op = "par_compress" =>
          LET seq == compress(args.format, args.rgba, args.width, args.height, args.out_len)
              blocks_wide == num_blocks(args.width)
          IN  /\ ~seq.aborted
              /\ Len(seq.calls) = Cardinality(DOMAIN ret.output)
              /\ \A k \in 1..Len(seq.calls) :
                    LET call == seq.calls[k]
                        b == call.offset \div block_size(args.format)
                    IN  /\ b = call.y * blocks_wide + call.x
                        /\ ret.pc[call.y] = 2 * call.x + 1
                              => ret.source_rgba[call.y] = call.rgba
                        /\ ret.output[b] =
                              IF 2 * call.x + 1 < ret.pc[call.y]
                              THEN <<compress_block_masked(args.format, call.rgba, call.mask,
                                                           args.params)>>
                              ELSE <<>>

\* C18 witness, decompress: the second row task has finished before the
\* first one has started, an order the sequential loop never takes, and the
\* second row chunk is the one of the sequential run
C18_WitnessDecompress ==
    /\ op = "par_decompress"
    /\ args.height = 8
    /\ num_blocks(args.width) = 2
    /\ ret.pc[0] = 0
    /\ ret.pc[1] = 2
    /\ \E g \in DOMAIN ret.output : ret.output[g] # args.output[g]

\* C18 witness, compress: the row tasks are interleaved, the first one
\* between its copy and its call and the second one finished with a block
\* whose mask is partial and which kept texels of the block to its left
C18_Witness ==
    /\ op = "par_compress"
    /\ Cardinality(DOMAIN ret.pc) >= 2
    /\ num_blocks(args.width) = 2
    /\ args.width % 4 # 0
    /\ ret.pc[0] = 1
    /\ ret.pc[1] = 4
    /\ ret.output[3] # <<>>
    /\ ret.output[0] = <<>>

\* the value decompress_bc3 gives texel 0 of an alpha block
DecodedCode(block) ==
    decompress_bc3([t \in 0..15 |-> Texel(0, 0, 0, 0)], 3, block)[0][3]

\* C19: in compress_bc3 each candidate palette used for fitting is built from
\* its own endpoints: the 8-point candidate is {a, b, (6a+b)/7, ...,
\* (a+6b)/7} with a = min7 and b = max7, the 6-point candidate is {a, b,
\* (4a+b)/5, ..., (a+4b)/5, 0, 255} with a = min5 and b = max5; so code j of
\* each candidate is the value decompress_bc3 gives a texel of index j in the
\* block written for that candidate
C19_CandidatePalettes ==
    op = "compress_bc3" =>
        LET c == ret.candidates
            all(j) == [t \in 0..15 |-> j]
        IN  /\ c.codes7 = << c.min7, c.max7,
                             (6 * c.min7 + c.max7) \div 7, (5 * c.min7 + 2 * c.max7) \div 7,
                             (4 * c.min7 + 3 * c.max7) \div 7, (3 * c.min7 + 4 * c.max7) \div 7,
                             (2 * c.min7 + 5 * c.max7) \div 7, (c.min7 + 6 * c.max7) \div 7 >>
            /\ c.codes5 = << c.min5, c.max5,
                             (4 * c.min5 + c.max5) \div 5, (3 * c.min5 + 2 * c.max5) \div 5,
                             (2 * c.min5 + 3 * c.max5) \div 5, (c.min5 + 4 * c.max5) \div 5,
                             0, 255 >>
            /\ \A j \in 0..7 :
                  /\ c.codes7[j + 1] = DecodedCode(write_alpha_block7(c.min7, c.max7, all(j)))
                  /\ c.codes5[j + 1] = DecodedCode(write_alpha_block5(c.min5, c.max5, all(j)))

\* C19, the part that holds: the 6-point candidate is built from min5 and
\* max5 and is the palette decoded from the block written for it, and the
\* six interpolated codes of the 8-point candidate are those of min7 and max7
C19_SixPointAndInterpolated ==
    op = "compress_bc3" =>
        LET c == ret.candidates
            all(j) == [t \in 0..15 |-> j]
        IN  /\ \A j \in 0..7 :
                  c.codes5[j + 1] = DecodedCode(write_alpha_block5(c.min5, c.max5, all(j)))
            /\ \A j \in 2..7 :
                  c.codes7[j + 1] = DecodedCode(write_alpha_block7(c.min7, c.max7, all(j)))

\* the sum of f over the sixteen texels
Sum16(f) ==
    f[0] + f[1] + f[2] + f[3] + f[4] + f[5] + f[6] + f[7]
    + f[8] + f[9] + f[10] + f[11] + f[12] + f[13] + f[14] + f[15]

\* the total squared error of a palette (8 codes) on the valid texels, each
\* texel taking its nearest code
PaletteError(rgba, channel, mask, palette) ==
    Sum16([i \in 0..15 |->
              IF ~BitSet(mask, i) THEN 0
              ELSE LET dist(j) == (rgba[i][channel] - palette[j]) * (rgba[i][channel] - palette[j])
                   IN  dist(CHOOSE j \in 1..8 : \A k \in 1..8 : dist(j) <= dist(k))])

\* the total squared error of a written block on the valid texels
DecodedError(rgba, channel, mask, block) ==
    LET decoded == decompress_bc3(rgba, channel, block)
    IN  Sum16([i \in 0..15 |->
                  IF ~BitSet(mask, i) THEN 0
                  ELSE (rgba[i][channel] - decoded[i][channel])
                       * (rgba[i][channel] - decoded[i][channel])])

\* the 8-point palette of the endpoints a, b
Palette8(a, b) ==
    << a, b, (6 * a + b) \div 7, (5 * a + 2 * b) \div 7, (4 * a + 3 * b) \div 7,
       (3 * a + 4 * b) \div 7, (2 * a + 5 * b) \div 7, (a + 6 * b) \div 7 >>

\* the 6-point palette of the endpoints a, b
Palette6(a, b) ==
    << a, b, (4 * a + b) \div 5, (3 * a + 2 * b) \div 5, (2 * a + 3 * b) \div 5,
       (a + 4 * b) \div 5, 0, 255 >>

\* C20: compress_bc3 picks the palette with the smaller total error: the sum
\* over the valid texels of (input value - value decoded from the written
\* block)^2 is no larger than the error of the other candidate palette with
\* each texel at its nearest code; on equal errors the 6-point candidate is
\* written; masked texels get index 0 in both fits and add no error
C20_PicksSmallerError ==
    op = "compress_bc3" =>
        LET c == ret.candidates
            rgba == args.rgba
            channel == args.channel
            mask == args.mask
            six == ret.block[0] <= ret.block[1]
            err6 == PaletteError(rgba, channel, mask, Palette6(c.min5, c.max5))
            err8 == PaletteError(rgba, channel, mask, Palette8(c.min7, c.max7))
        IN  /\ DecodedError(rgba, channel, mask, ret.block) <= (IF six THEN err8 ELSE err6)
            /\ err6 = err8 => six
            /\ \A i \in 0..15 :
                  ~BitSet(mask, i) => c.fit5.indices[i] = 0 /\ c.fit7.indices[i] = 0
            /\ c.fit5.err = PaletteError(rgba, channel, mask, c.codes5)
            /\ c.fit7.err = PaletteError(rgba, channel, mask, c.codes7)

\* C20, the part that holds: the block of the fit with the smaller error
\* against the codebooks of the code is written, the 5-alpha one on equal
\* errors; fit_codes gives every valid texel its nearest code and masked
\* texels index 0 and no error; a written 5-alpha block decodes with exactly
\* the error of its fit
C20_AgainstOwnCodebooks ==
    op = "compress_bc3" =>
        LET c == ret.candidates
            rgba == args.rgba
            channel == args.channel
            mask == args.mask
            six == ret.block[0] <= ret.block[1]
        IN  /\ six <=> c.fit5.err <= c.fit7.err
            /\ \A i \in 0..15 :
                  ~BitSet(mask, i) => c.fit5.indices[i] = 0 /\ c.fit7.indices[i] = 0
            /\ c.fit5.err = PaletteError(rgba, channel, mask, c.codes5)
            /\ c.fit7.err = PaletteError(rgba, channel, mask, c.codes7)
            /\ six => DecodedError(rgba, channel, mask, ret.block) = c.fit5.err

\* C21: write_alpha_block5 always emits alpha0 <= alpha1, and
\* write_alpha_block7, given endpoints that differ, always emits
\* alpha0 > alpha1; when the endpoints are swapped the indices are rewritten
\* (8-point: 0<->1, other x -> 9-x; 6-point: 0<->1, x in 2..5 -> 7-x, 6 and 7
\* fixed), so every texel decodes to the value its index selected in the
\* palette of the unswapped endpoints; the indices are packed 3 bits each,
\* little-endian, 8 per 3 bytes
C21_AlphaSerialisation ==
    op = "write_alpha_block" =>
        LET a0 == args.alpha0
            a1 == args.alpha1
            indices == args.indices
            six == args.points = 5
            swapped == IF six THEN a0 > a1 ELSE a0 < a1
            rewritten(x) == IF ~swapped THEN x
                            ELSE IF x = 0 THEN 1
                            ELSE IF x = 1 THEN 0
                            ELSE IF six THEN (IF x \in 2..5 THEN 7 - x ELSE x)
                            ELSE 9 - x
            palette == IF six THEN Palette6(a0, a1) ELSE Palette8(a0, a1)
            decoded == decompress_bc3([t \in 0..15 |-> Texel(0, 0, 0, 0)], 3, ret)
            group(g) == ret[2 + 3 * g] + 256 * ret[3 + 3 * g] + 65536 * ret[4 + 3 * g]
        IN  /\ six => ret[0] <= ret[1]
            /\ (~six /\ a0 # a1) => ret[0] > ret[1]
            /\ {ret[0], ret[1]} = {a0, a1}
            /\ swapped <=> ret[0] # a0
            /\ \A t \in 0..15 :
                  /\ (group(t \div 8) \div (8 ^ (t % 8))) % 8 = rewritten(indices[t])
                  /\ (six \/ a0 # a1) => decoded[t][3] = palette[indices[t] + 1]

\* a call of write_alpha_block7 that swaps the endpoints and rewrites every
\* index 0..7
C21_Witness ==
    /\ op = "write_alpha_block"
    /\ args.points = 7
    /\ args.alpha0 < args.alpha1
    /\ {args.indices[t] : t \in 0..15} = 0..7
    /\ ret[0] = args.alpha1
    /\ ret[1] = args.alpha0

\* C22: whenever write3 swaps the packed endpoints it exchanges indices 0
\* and 1 and leaves 2 and 3 fixed, and whenever write4 swaps them it XORs
\* every index with 1; in both cases each texel of the written block decodes
\* (colourblock::decompress) to the palette colour its original index
\* selected in the palette of the unswapped packed endpoints; the 16 two-bit
\* indices are packed four per byte, lowest texel in the lowest bits
C22_SwapPreservesDecode ==
    op \in {"write3", "write4"} =>
        LET a == pack_565(args.start)
            b == pack_565(args.end)
            indices == args.indices
            three == op = "write3"
            swapped == IF three THEN a > b ELSE a < b
            rewritten(x) == IF three
                            THEN (IF x = 0 THEN 1 ELSE IF x = 1 THEN 0 ELSE x)
                            ELSE (CASE x = 0 -> 1 [] x = 1 -> 0 [] x = 2 -> 3 [] x = 3 -> 2)
            palette == IF three THEN Palette3(a, b) ELSE Palette4(a, b)
        IN  swapped =>
                /\ ret[0] + 256 * ret[1] = b
                /\ ret[2] + 256 * ret[3] = a
                /\ \A t \in 0..15 :
                      /\ IndexAt(ret, t) = rewritten(indices[t])
                      /\ colourblock_decompress(ret, TRUE)[t] = palette[indices[t]]
                      /\ ~three => colourblock_decompress(ret, FALSE)[t] = palette[indices[t]]

\* a call of write4 that swaps the endpoints of a block using all four
\* indices, whose interpolated colours differ
C22_Witness ==
    /\ op = "write4"
    /\ pack_565(args.start) < pack_565(args.end)
    /\ {args.indices[t] : t \in 0..15} = 0..3
    /\ Palette4(pack_565(args.start), pack_565(args.end))[2]
           # Palette4(pack_565(args.start), pack_565(args.end))[3]

\* C23: for every block, channel and mask (an empty mask and blocks whose
\* valid values are all 0 or all 255 included), after the range computation
\* and fix_range in compress_bc3, 0 <= min5 <= max5 <= 255 with
\* max5 - min5 >= 5 and 0 <= min7 <= max7 <= 255 with max7 - min7 >= 7; max
\* is grown first and min is lowered only when max is clamped at 255; no u8
\* subtraction underflows on the way
C23_MinimumSpan ==
    op = "compress_bc3" =>
        LET c == ret.candidates
            spans(valid, min, max, steps) ==
                /\ 0 <= min /\ min <= max /\ max <= 255
                /\ max - min >= steps
                /\ ~fix_range_underflows(valid[1], valid[2], steps)
                /\ max = (IF valid[2] - valid[1] < steps
                          THEN Min(valid[1] + steps, 255) ELSE valid[2])
                /\ min # valid[1] => (max = 255 /\ valid[1] + steps > 255 /\ min = 255 - steps)
        IN  /\ spans(c.valid5, c.min5, c.max5, 5)
            /\ spans(c.valid7, c.min7, c.max7, 7)

\* compress_bc3 on a block whose valid values are all 255: the 5-alpha range
\* found is empty and grown from 0, the 7-alpha range has its max clamped at
\* 255 and its min lowered
C23_Witness ==
    /\ op = "compress_bc3"
    /\ args.mask = 65535
    /\ \A i \in 0..15 : args.rgba[i][args.channel] = 255
    /\ ret.candidates.min5 = 0
    /\ ret.candidates.max5 = 5
    /\ ret.candidates.min7 = 248
    /\ ret.candidates.max7 = 255

\* the texels ColourSet::new accepts: mask bit set and, for BC1, alpha >= 128
Accepted(rgba, mask, format) ==
    {i \in 0..15 : BitSet(mask, i) /\ ~(format = "Bc1" /\ rgba[i][3] < 128)}

\* C24: ColourSet::new, for every block, mask and format: count is in
\* [0, 16]; remap[i] = -1 exactly when mask bit i is clear or (format is BC1
\* and alpha_i < 128); for every other texel 0 <= remap[i] < count; the
\* transparent flag is true exactly when format is BC1 and some unmasked
\* texel has alpha < 128; remap_indices gives target[i] = 3 when
\* remap[i] = -1 and source[remap[i]] otherwise
C24_ColourSetInvariant ==
    op = "colourset_new" =>
        LET set == ret.set
            rgba == args.rgba
            bc1 == args.format = "Bc1"
        IN  /\ set.count \in 0..16
            /\ \A i \in 0..15 :
                  /\ set.remap[i] = -1
                        <=> (~BitSet(args.mask, i) \/ (bc1 /\ rgba[i][3] < 128))
                  /\ set.remap[i] # -1 => (0 <= set.remap[i] /\ set.remap[i] < set.count)
                  /\ ret.target[i] = IF set.remap[i] = -1 THEN 3
                                     ELSE args.source[set.remap[i]]
            /\ set.transparent
                  <=> (bc1 /\ \E i \in 0..15 : BitSet(args.mask, i) /\ rgba[i][3] < 128)

\* a BC1 block with a masked-out texel, a texel of alpha < 128 and several
\* points, whose remapped indices hold a 3 and other indices
C24_Witness ==
    /\ op = "colourset_new"
    /\ args.format = "Bc1"
    /\ ret.set.transparent
    /\ ret.set.count >= 3
    /\ \E i \in 0..15 : ~BitSet(args.mask, i)
    /\ \E i \in 0..15 : BitSet(args.mask, i) /\ ret.target[i] = 3
    /\ \E i \in 0..15 : ret.target[i] \in 1..2

\* C25: two accepted texels map to the same point if and only if their R,
\* G, B bytes are equal, so the points are pairwise distinct; before the
\* square root the weight of each point is the sum over the texels mapped to
\* it of 1 (of (alpha + 1) / 256 when weigh_colour_by_alpha is true), so with
\* alpha weighting off the weights sum to the number of accepted texels;
\* points are numbered in order of first occurrence
C25_Coalescing ==
    op = "colourset_new" =>
        LET set == ret.set
            rgba == args.rgba
            acc == Accepted(rgba, args.mask, args.format)
            rgb(i) == <<rgba[i][0], rgba[i][1], rgba[i][2]>>
            mapped(k) == {i \in acc : set.remap[i] = k}
            first(k) == CHOOSE i \in mapped(k) : \A j \in mapped(k) : i <= j
            w(i) == IF args.alpha_weighted THEN rgba[i][3] + 1 ELSE 256
            total(k) == Sum16([i \in 0..15 |-> IF i \in mapped(k) THEN w(i) ELSE 0])
        IN  /\ \A i \in acc, j \in acc : set.remap[i] = set.remap[j] <=> rgb(i) = rgb(j)
            /\ \A k \in 0..(set.count - 1) :
                  /\ mapped(k) # {}
                  /\ set.points[k] = << <<rgb(first(k))[1], 255>>, <<rgb(first(k))[2], 255>>,
                                        <<rgb(first(k))[3], 255>> >>
                  /\ set.weights[k] = sqrt(total(k))
                  /\ \A l \in 0..(set.count - 1) :
                        /\ k # l => set.points[k] # set.points[l]
                        /\ k < l => first(k) < first(l)
            /\ ~args.alpha_weighted =>
                  Sum16([k \in 0..15 |-> IF k < set.count THEN total(k) ELSE 0])
                      = 256 * Cardinality(acc)

\* a block in which a colour occurs at several accepted texels with
\* different alphas, weighted by alpha, next to other points
C25_Witness ==
    /\ op = "colourset_new"
    /\ args.alpha_weighted
    /\ ret.set.count >= 2
    /\ \E i \in 0..15, j \in 0..15 :
          /\ i < j
          /\ ret.set.remap[i] # -1
          /\ ret.set.remap[i] = ret.set.remap[j]
          /\ args.rgba[i][3] # args.rgba[j][3]


C26_DualModePolicy ==
    op = "colourfit_compress" =>
        LET fit == ret.fit
            bc1 == args.format = "Bc1"
            opaque == ~fit.colours.transparent
            zero == [k \in 0..7 |-> 0]
            expected == IF bc1 THEN IF opaque THEN <<"compress3", "compress4">>
                                    ELSE <<"compress3">>
                        ELSE <<"compress4">>
            three == compress3(fit, zero, [args.o3 EXCEPT !.wins = TRUE])
            four == compress4(fit, zero, [args.o4 EXCEPT !.wins = TRUE])
            best == IF ~bc1 THEN four
                    ELSE IF opaque /\ args.o4.error < args.o3.error THEN four
                    ELSE three
        IN  /\ Len(ret.calls) <= Len(expected)
            /\ ret.calls = SubSeq(expected, 1, Len(ret.calls))
            /\ ret.pc \in {"copy", "returned"} =>
                  /\ ret.calls = expected
                  /\ ret.best_compressed = best
            /\ ret.pc = "returned" => ret.block = best
            /\ ret.pc # "returned" => ret.block = [k \in 0..7 |-> 204]

\* C26 witness: an opaque BC1 block whose four-colour fit found the same
\* error as the three-colour fit: both fits ran, in that order, and the bytes
\* copied are the three-colour block, which differs from the four-colour one
C26_Witness ==
    /\ op = "colourfit_compress"
    /\ args.format = "Bc1"
    /\ ~ret.fit.colours.transparent
    /\ ret.fit.colours.count >= 2
    /\ args.o4.error = args.o3.error
    /\ ret.pc = "returned"
    /\ ret.calls = <<"compress3", "compress4">>
    /\ ret.block = compress3(ret.fit, [k \in 0..7 |-> 0], [args.o3 EXCEPT !.wins = TRUE])
    /\ ret.block # compress4(ret.fit, [k \in 0..7 |-> 0], [args.o4 EXCEPT !.wins = TRUE])


\* C29: BC1 punch-through end to end: after compress_block_masked and
\* decompress_block with format BC1, every texel whose mask bit is set and
\* whose input alpha is < 128 decodes to RGBA (0,0,0,0), and every texel whose
\* mask bit is set and whose input alpha is >= 128 decodes with alpha 255 (an
\* accepted point never receives palette index 3 in a block that decodes in
\* three-colour mode).
C29_PunchThrough ==
    (op = "compress_colour" /\ args.format = "Bc1") =>
        LET decoded == decompress_block("Bc1", ret.block)
        IN  \A i \in 0..15 :
                BitSet(args.mask, i) =>
                    IF args.rgba[i][3] < 128
                    THEN decoded[i] = Texel(0, 0, 0, 0)
                    ELSE decoded[i][3] = 255

\* C29 witness: an opaque BC1 block fitted by ClusterFit whose four-colour fit
\* won: the block is in four-colour mode, some texel holds index 3 and every
\* texel decodes with alpha 255
C29_Witness ==
    /\ op = "compress_colour"
    /\ args.format = "Bc1"
    /\ args.mask = 65535
    /\ \A i \in 0..15 : args.rgba[i][3] >= 128
    /\ ret.fit.fit = "ClusterFit"
    /\ args.o4.wins
    /\ ~ThreeColourMode("Bc1", ret.block)
    /\ \E i \in 0..15 : IndexAt(ret.block, i) = 3
    /\ \A i \in 0..15 : decompress_block("Bc1", ret.block)[i][3] = 255

\* C29 witness, punched: a BC1 block with texels of alpha below and above 128
\* decodes with the first transparent black and the second opaque
C29_WitnessPunched ==
    /\ op = "compress_colour"
    /\ args.format = "Bc1"
    /\ args.mask = 65535
    /\ \E i \in 0..15 : /\ args.rgba[i][3] < 128
                        /\ decompress_block("Bc1", ret.block)[i] = Texel(0, 0, 0, 0)
    /\ \E i \in 0..15 : /\ args.rgba[i][3] >= 128
                        /\ decompress_block("Bc1", ret.block)[i][3] = 255


\* the ordering of the last pass, when construct_ordering returned true
LastOrdering == ret.order[Len(ret.passes) - 1]

\* the first count entries of an ordering are a permutation of the point
\* indices, in non-decreasing order of projection onto a finite axis, and
\* points_weights and xsum_wsum hold exactly those points, each once
WellOrdered(order, axis) ==
    LET count == ret.colours.count
    IN  /\ {order[m] : m \in 0..(count - 1)} = 0..(count - 1)
        /\ axis[4] # 0 =>
              \A m \in 0..(count - 2) :
                  dot(ret.colours.points[order[m]], axis)
                      <= dot(ret.colours.points[order[m + 1]], axis)
        /\ ret.points_weights = [m \in 0..(count - 1) |-> order[m]]
        /\ \A p \in 0..(count - 1) : ret.xsum_wsum[p] = 1

\* C27: cluster-fit ordering: after construct_ordering(axis, iteration), for
\* every point set and every axis vector the fitter can produce (including
\* the principal axis of a point set whose covariance rows sum to zero), the
\* first count entries of order[iteration] are a permutation of the point
\* indices 0..count-1 in non-decreasing order of projection onto the axis,
\* and points_weights[0..count) holds exactly those points, each once, so
\* xsum_wsum is the weighted sum of all points.
C27_Ordering ==
    (op = "cluster_compress" /\ Len(ret.passes) >= 1
        /\ ret.passes[Len(ret.passes)].unique) =>
        WellOrdered(LastOrdering, ret.passes[Len(ret.passes)].axis)

\* C27 on the axes with finite components, or with sixteen points (no
\* padding in the sorted array): the ordering is as claimed
C27_OrderingFinite ==
    (op = "cluster_compress" /\ Len(ret.passes) >= 1
        /\ ret.passes[Len(ret.passes)].unique
        /\ (ret.passes[Len(ret.passes)].axis[4] # 0 \/ ret.colours.count = 16)) =>
        WellOrdered(LastOrdering, ret.passes[Len(ret.passes)].axis)

\* a pass whose ordering put white, the later point, before black on an axis
\* that decreases along the grey diagonal
C27_ReachedFinite ==
    /\ op = "cluster_compress"
    /\ ret.colours.count = 2
    /\ Len(ret.passes) = 2
    /\ ret.passes[2].unique
    /\ ret.passes[2].axis[4] # 0
    /\ ret.passes[2].axis[1] < 0
    /\ LastOrdering[0] = 1
    /\ LastOrdering[1] = 0

\* C28: cluster-fit iteration terminates: compress3 and compress4 run at most
\* num_iterations ordering iterations (1 for cluster fit, 8 for iterative
\* cluster fit); they stop earlier when the new ordering is identical to the
\* ordering of an earlier iteration of the same call, or when an iteration
\* did not lower the best error; the ordering index used to emit the block
\* (best_iteration) is always an iteration that was actually constructed.
C28_Termination ==
    op = "cluster_compress" =>
        /\ ret.num_iterations = IF args.iterate THEN 8 ELSE 1
        /\ Len(ret.passes) <= ret.num_iterations
        /\ \A k \in 1..Len(ret.passes) :
              (~ret.passes[k].unique \/ ~ret.passes[k].lower) =>
                  (Len(ret.passes) = k /\ ret.pc # "loop")
        /\ ret.pc # "loop" =>
              /\ ret.best_iteration < Len(ret.passes)
              /\ ret.passes[ret.best_iteration + 1].unique

\* C28 but for the first pass: the bound, the stop on a repeated ordering,
\* the stop after a pass other than the first that did not lower the best
\* error, and best_iteration constructed
C28_Bounded ==
    op = "cluster_compress" =>
        /\ ret.num_iterations = IF args.iterate THEN 8 ELSE 1
        /\ Len(ret.passes) <= ret.num_iterations
        /\ \A k \in 1..Len(ret.passes) :
              (~ret.passes[k].unique \/ (k > 1 /\ ~ret.passes[k].lower)) =>
                  (Len(ret.passes) = k /\ ret.pc # "loop")
        /\ ret.pc # "loop" =>
              /\ ret.best_iteration < Len(ret.passes)
              /\ ret.passes[ret.best_iteration + 1].unique

\* eight passes were run, each with a new ordering and a lower error
C28_ReachedEight ==
    /\ op = "cluster_compress"
    /\ Len(ret.passes) = 8
    /\ \A k \in 1..8 : ret.passes[k].unique /\ ret.passes[k].lower
    /\ ret.pc = "saved"
    /\ ret.best_iteration = 7

\* a pass stopped on an ordering seen before
C28_ReachedRepeat ==
    /\ op = "cluster_compress"
    /\ Len(ret.passes) >= 3
    /\ ~ret.passes[Len(ret.passes)].unique
    /\ ret.pc = "saved"

====
